---- MODULE Spec2Model ----
(***************************************************************************)
(* A model of the mlb-gameday-api service: the game cache (data package), *)
(* the Discovery and Audit workers that drive it, and the SSE broadcaster *)
(* with its pump and its SSE handlers (handlers and server packages).     *)
(* Every shared-memory access of the Go code (a sync.Map Load, Store or   *)
(* Delete, a read or a write of GameCache.length, an atomic add on        *)
(* Broadcaster.Count, a channel operation) is one step, so that the       *)
(* interleavings of the goroutines are the behaviours of the model.       *)
(***************************************************************************)
EXTENDS Integers, Sequences, FiniteSets, TLC

(***************************************************************************)
(* Bounds of the model.                                                    *)
(***************************************************************************)
\* game ids the upstream schedule can list
NumIds == 3
\* games of the schedule in the general scenario
NumGames == 1
\* variants of the link the schedule reports for one game
NumLinks == 2
\* ticks of the Discovery worker (the immediate run included)
MaxDiscTicks == 2
\* ticks of the Audit worker
MaxAuditTicks == 2
\* advances of the wall clock, each of ClockStep seconds
MaxAdvance == 1
ClockStep == 6
\* ticks of the two workers in the scenario of the nearly full cache
CapDiscTicks == 2
CapAuditTicks == 1
\* ticks and clock advances in the scenario of startup and shutdown
ShutDiscTicks == 1
ShutAuditTicks == 1
ShutAdvance == 1
\* clock advances in the scenario of recurring ticks
RetryAdvance == 1
\* the scenario of an old final game: ticks, and a clock step over FinalTTL
PruneDiscTicks == 2
PruneAuditTicks == 2
PruneAdvance == 1
PruneStep == 2000
\* the scenario of the Audit worker ticking for ever: Discovery ticks watched,
\* clock advances of PruneStep seconds
StaleDiscTicks == 1
StaleAdvance == 1
\* games of the day in the scenario of the snapshot request
SnapGames == 2
\* the gamePk of a live feed that is not the game asked for
ForeignGamePk == 2
\* the players of a live feed have the ids 1..MaxPlayer
MaxPlayer == 2
\* outs in a live feed
MaxOuts == 3
\* SSE connections
NumConns == 2
\* events the workers hand to the pump
MaxMsgs == 2
\* concurrent callers of the exported API in the harness, calls of each
NumCallers == 2
MaxCalls == 1

(***************************************************************************)
(* Program constants.                                                      *)
(***************************************************************************)
\* the literal the length counter is compared with
CacheCap == 255
\* length is a uint8
LengthMod == 256
\* refresh ages, in seconds
LiveTTL == 5
PreviewTTL == 900
FinalTTL == 1800
\* prune horizons, in seconds
FinalPrune == 54000
PreviewPrune == 86400
\* make(chan *Update, 16)
QueueCap == 16

GameIds == 1..NumIds
LinkVariants == 1..NumLinks
Conns == 1..NumConns

\* Entries discovered on an earlier date whose hydration failed: they stay
\* unready for ever (Discover returns false for them, so updateGames never
\* hands them to GetOne, and Audit matches no rule on an empty status).
FillerIds(n) == (NumIds + 1)..(NumIds + n)
FillerLink == <<0, 1>>

\* A link is the URL of one game's live feed: <<game, variant>>.
NoLink == <<0, 0>>

(***************************************************************************)
(* data.Game and its parts                                                 *)
(***************************************************************************)
ZeroState == [general |-> "", start |-> 0]

\* Game{}: the zero value GetOne returns with false
ZeroGame == [id |-> 0, link |-> NoLink, ready |-> FALSE, ts |-> 0, state |-> ZeroState]

\* a nil *Game in the Data slice of an event
Nil == [nil |-> TRUE]

\* what the upstream live feed can answer for a game
PreviewSoon == [general |-> "Preview", start |-> 3600]
LiveNow == [general |-> "Live", start |-> -3600]
FinalOld == [general |-> "Final", start |-> -60000]
UpstreamStates == {PreviewSoon, LiveNow, FinalOld}
\* a live feed that answers with the gamePk of another game
LiveElsewhere == [general |-> "Live", start |-> -3600, gamePk |-> ForeignGamePk]
\* a postponed game: announced, to start in 25 hours
PreviewPostponed == [general |-> "Preview", start |-> 90000]

\* a variant that stores the placeholder without its link
PlaceholderNoLink(id, link, t) ==
    [id |-> id, link |-> NoLink, ready |-> FALSE, ts |-> t, state |-> ZeroState]

\* the record Discover stores
Placeholder(id, link, t) ==
    [id |-> id, link |-> link, ready |-> FALSE, ts |-> t, state |-> ZeroState]

\* a variant that writes the first link variant of the game, whatever it was given
FetchGameFirstLink(link, resp, t) ==
    [id |-> link[1], link |-> <<link[1], 1>>, ready |-> TRUE, ts |-> t, state |-> resp]

\* the gamePk of a live feed: the game the link names, unless the answer
\* carries the gamePk of another game
GamePk(link, resp) == IF "gamePk" \in DOMAIN resp THEN resp.gamePk ELSE link[1]

\* FetchGame on a successful response: the id is the gamePk of the answer,
\* the link is the link given, the state is the projection, the timestamp
\* is time.Now().
FetchGame(link, resp, t) ==
    [id |-> GamePk(link, resp), link |-> link, ready |-> TRUE, ts |-> t,
     state |-> [general |-> resp.general, start |-> resp.start]]

(***************************************************************************)
(* api_data.LiveGame and the projection of FetchGame.  A player is named  *)
(* by its id: the players table maps an id to the record of that id.      *)
(***************************************************************************)
PlayerIds == 0..MaxPlayer

\* the zero value of api_data.LiveGame
ZeroLiveGame ==
    [status |-> "", players |-> {},
     probAway |-> 0, probHome |-> 0,
     defPitcher |-> 0, offPitcher |-> 0, awayDefends |-> FALSE,
     winner |-> 0, loser |-> 0, awayRuns |-> 0, homeRuns |-> 0,
     batter |-> 0, first |-> 0, second |-> 0, third |-> 0, outs |-> 0]

\* FetchGame has not built a State
NotProjected == [built |-> FALSE]

\* the keys of the players map: 0, the TBD player, and the ids of gameData.players
Table(feed) == {0} \cup feed.players

\* the switch on abstractGameState: <<pitcherAwayID, pitcherHomeID>>
PitcherIds(feed) ==
    CASE feed.status = "Preview" -> <<feed.probAway, feed.probHome>>
      [] feed.status = "Live" ->
            IF feed.awayDefends THEN <<feed.defPitcher, feed.offPitcher>>
                                ELSE <<feed.offPitcher, feed.defPitcher>>
      [] feed.status = "Final" ->
            IF feed.awayRuns > feed.homeRuns THEN <<feed.winner, feed.loser>>
                                             ELSE <<feed.loser, feed.winner>>
      [] OTHER -> <<0, 0>>

\* the ids FetchGame looks up and dereferences: *players[id]
Dereferenced(feed) ==
    {PitcherIds(feed)[1], PitcherIds(feed)[2],
     feed.batter, feed.first, feed.second, feed.third}

\* the State literal
StateOf(feed) ==
    [built |-> TRUE,
     general |-> feed.status,
     pitcherAway |-> PitcherIds(feed)[1], pitcherHome |-> PitcherIds(feed)[2],
     scoreAway |-> feed.awayRuns, scoreHome |-> feed.homeRuns,
     batter |-> feed.batter, first |-> feed.first,
     second |-> feed.second, third |-> feed.third,
     outs |-> feed.outs]

\* a variant that clears the batter only when he stands on a base
ClearBatterOnBase(s) ==
    IF s.batter = s.first \/ s.batter = s.second \/ s.batter = s.third
      THEN [s EXCEPT !.batter = 0]
      ELSE s

\* "catch API quirks in batter display"
ClearBatter(s) ==
    IF \/ s.general # "Live"
       \/ s.outs = 3
       \/ s.batter = s.first
       \/ s.batter = s.second
       \/ s.batter = s.third
      THEN [s EXCEPT !.batter = 0]
      ELSE s

\* "update information for finalized games"
Finalize(s) ==
    IF s.general = "Final" THEN [s EXCEPT !.batter = 0, !.outs = 0] ELSE s

\* what FetchGame does with a decoded live feed: a lookup of an id that is
\* not a key gives a nil *Player, and dereferencing it panics
ProjectState(feed) ==
    IF Dereferenced(feed) \subseteq Table(feed)
      THEN [panic |-> "none", state |-> Finalize(ClearBatter(StateOf(feed)))]
      ELSE [panic |-> "nil pointer dereference", state |-> NotProjected]

VARIABLES
    env,        \* the upstream (schedules, live-feed answers, whether requests fail)
                \* and how long the service is watched (ticks, clock advances)
    cache,      \* GameCache.cache: id -> Game, for the ids stored
    length,     \* GameCache.length (uint8)
    now,        \* the wall clock, in seconds
    nAdv,       \* clock advances so far
    dc,         \* Discover activations: caller -> locals
    dpc,        \* Discovery worker: position in FindNewGames/updateGames
    dSched,     \* updateGames: gameIds/gameLinks, a sequence of <<id, link>>
    dI,         \* updateGames: index of the schedule loop
    dAdded,     \* updateGames: added
    nDisc,      \* Discovery ticks so far
    apc,        \* Audit worker: position in AuditGames/Audit
    aSnap,      \* Audit: keys stored when Range started
    aVisited,   \* Audit: keys Range has visited
    aKey,       \* Audit: the key the callback is working on
    updated,    \* Audit: ids refreshed and changed
    removed,    \* Audit: ids pruned
    failed,     \* Audit: ids whose refresh failed
    aTmp,       \* Delete: the value of length read by length--
    nAudit,     \* Audit ticks so far
    th,         \* Fetch/GetOne activations: <<kind, id>> -> locals
    clients,    \* Broadcaster.clients: uuid -> channel
    Count,      \* Broadcaster.Count
    chans,      \* the user channels: conn -> [buf, closed], with got: the
                \* messages the handler took off the channel and wrote to its client
    hpc,        \* SSE handlers: conn -> position in GetUpdates
    rc,         \* Deregister activations: caller -> locals
    ppc,        \* broadcaster pump: position in its loop / in Broadcast
    pMsg,       \* pump: the message received
    bSnap,      \* Broadcast: keys stored when Range started
    bVisited,   \* Broadcast: keys Range has visited
    bKey,       \* Broadcast: the key the callback is working on
    bI,         \* Broadcast: i, the messages sent
    pLog,       \* pump: <<countSent, Count>> of its last log line
    nMsg,       \* events handed to the pump so far
    nCalls,     \* harness: calls made, per caller
    cancelled,  \* the root context: whether cancel() was called
    wg,         \* the WaitGroup of the two workers: its counter
    updates,    \* the event channel: "open" or "closed"
    opc,        \* shutdown observer: position in its goroutine
    mpc,        \* main: "init" before the workers are started, then "wait"
    lg,         \* FetchGame: the live feed decoded from the upstream's answer
    projected,  \* FetchGame: the State it built from lg, once it has
    ga,         \* GetAll activation of a snapshot request: its locals
    obj,        \* generateFieldsString: the type of its argument
    fields,     \* generateFieldsString: the string it returned, once it has
    panic       \* how the process ended: "none" while it runs, the runtime
                \* panic that killed it, or "exit" once main returned

cacheVars == <<cache, length>>
clockVars == <<now, nAdv>>
discVars  == <<dpc, dSched, dI, dAdded, nDisc>>
auditVars == <<apc, aSnap, aVisited, aKey, updated, removed, failed, aTmp, nAudit>>
pumpVars  == <<ppc, pMsg, bSnap, bVisited, bKey, bI, pLog, nMsg>>
tableVars == <<clients, Count, chans>>
bcastVars == <<clients, Count, chans, hpc, rc, ppc, pMsg, bSnap, bVisited, bKey, bI, pLog, nMsg>>
progVars  == <<env, cache, length, now, nAdv, dc, dpc, dSched, dI, dAdded, nDisc,
               apc, aSnap, aVisited, aKey, updated, removed, failed, aTmp, nAudit, th>>
vars == <<env, cache, length, now, nAdv, dc, dpc, dSched, dI, dAdded, nDisc,
          apc, aSnap, aVisited, aKey, updated, removed, failed, aTmp, nAudit, th,
          clients, Count, chans, hpc, rc, ppc, pMsg, bSnap, bVisited, bKey, bI, pLog, nMsg,
          nCalls, cancelled, wg, updates, opc, mpc, lg, projected, ga, obj, fields, panic>>
shutVars == <<cancelled, wg, updates, opc, mpc>>
feedVars == <<lg, projected>>
readVars == <<ga, obj, fields>>

\* "s": the Fetch of the Audit sweep; "d", "a": the GetOne goroutines of a
\* Discovery tick and of an Audit tick
Threads == {"s", "d", "a"} \X GameIds

\* who calls the exported API: the Discovery worker <<"w", 0>>, the SSE
\* handler of a connection <<"c", n>>, a caller of the harness <<"h", n>>
Worker == <<"w", 0>>
HarnessCallers == {"h"} \X (1..NumCallers)
DiscoverCallers == {Worker} \cup HarnessCallers
DeregCallers == ({"c"} \X Conns) \cup HarnessCallers

ThreadOff == [pc |-> "off", link |-> NoLink, new |-> ZeroGame, old |-> ZeroGame,
              hadOld |-> FALSE, ret |-> "none", res |-> Nil]
\* GetAll is not running: len is the slice's length, snap and visited the
\* keys of its Range, g its write index, ret how it ended
GetAllOff == [pc |-> "off", len |-> 0, snap |-> {}, visited |-> {}, g |-> 0, ret |-> "none"]
\* no type is given to generateFieldsString, and it has returned nothing
NoType == [kind |-> "none"]
NotGenerated == [done |-> FALSE]
DiscoverOff == [pc |-> "off", id |-> 0, link |-> NoLink, tmp |-> 0, ret |-> "none"]
DeregOff == [pc |-> "off", id |-> 0, ch |-> 0, ret |-> "none"]

NoMsg == [event |-> "none", data |-> <<>>]
NoChan == [buf |-> <<>>, closed |-> FALSE, got |-> <<>>]

Stored == DOMAIN cache

Remove(f, k) == [x \in (DOMAIN f) \ {k} |-> f[x]]
Put(f, k, v) == [x \in (DOMAIN f) \cup {k} |-> IF x = k THEN v ELSE f[x]]

(***************************************************************************)
(* The states the service starts from.  InitWith(e, n): the upstream e,   *)
(* a cache holding n unready entries of an earlier date, no subscriber.   *)
(***************************************************************************)
InitCache(n) == [k \in FillerIds(n) |-> Placeholder(k, FillerLink, 0)]

InitProgram(e, n) ==
    /\ env = e
    /\ cache = InitCache(n) /\ length = n
    /\ now = 0 /\ nAdv = 0
    /\ dc = [c \in DiscoverCallers |-> DiscoverOff]
    /\ dpc = "idle" /\ dSched = <<>> /\ dI = 0 /\ dAdded = <<>> /\ nDisc = 0
    /\ apc = "idle" /\ aSnap = {} /\ aVisited = {} /\ aKey = 0
    /\ updated = <<>> /\ removed = <<>> /\ failed = <<>> /\ aTmp = 0 /\ nAudit = 0
    /\ th = [t \in Threads |-> ThreadOff]
    /\ rc = [c \in DeregCallers |-> DeregOff]
    /\ ppc = "recv" /\ pMsg = NoMsg /\ bSnap = {} /\ bVisited = {} /\ bKey = 0 /\ bI = 0
    /\ pLog = <<0, 0>> /\ nMsg = 0
    /\ nCalls = [c \in HarnessCallers |-> 0]
    /\ panic = "none"

\* the projection of FetchGame is not looked into: no live feed is held
NoLiveGame == lg = ZeroLiveGame /\ projected = NotProjected

\* no snapshot is being served and no fields string is being generated
NoReader == ga = GetAllOff /\ obj = NoType /\ fields = NotGenerated

InitWith(e, n) == InitProgram(e, n) /\ NoLiveGame /\ NoReader

\* Initialize has returned and main waits for the workers
Serving ==
    /\ cancelled = FALSE
    /\ wg = 2
    /\ updates = "open"
    /\ opc = "ctx"
    /\ mpc = "wait"

NoSubscribers ==
    /\ clients = << >>
    /\ Count = 0
    /\ chans = [n \in Conns |-> NoChan]
    /\ hpc = [n \in Conns |-> "off"]

\* the schedule of one date: the games of S in id order, each with link variant v
RECURSIVE Ascending(_)
Ascending(S) ==
    IF S = {} THEN <<>>
    ELSE LET m == CHOOSE x \in S : \A y \in S : x <= y
         IN <<m>> \o Ascending(S \ {m})
ScheduleOf(S, v) == [i \in 1..Cardinality(S) |-> <<Ascending(S)[i], <<Ascending(S)[i], v>>>>]

\* time passes
Tick ==
    /\ panic = "none"
    /\ UNCHANGED feedVars
    /\ UNCHANGED readVars
    /\ UNCHANGED shutVars
    /\ nAdv < env.advances
    /\ now' = now + env.step
    /\ nAdv' = nAdv + 1
    /\ UNCHANGED <<env, cacheVars, dc, discVars, auditVars, th, bcastVars, nCalls, panic>>

(***************************************************************************)
(* The broadcaster pump takes a message off the unbuffered event channel: *)
(* the send of a worker and the receive of the pump are one step.         *)
(***************************************************************************)
PumpTakes(msg) ==
    /\ ppc = "recv"
    /\ updates = "open"
    /\ ppc' = "range"
    /\ pMsg' = msg
    /\ bSnap' = DOMAIN clients
    /\ bVisited' = {}
    /\ bKey' = 0
    /\ bI' = 0
    /\ pLog' = pLog

(***************************************************************************)
(* GameCache.Fetch, one shared access per step.  t = <<kind, id>> names   *)
(* the activation, t[2] is the id fetched.                                *)
(***************************************************************************)
SetTh(t, r) == [th EXCEPT ![t] = r]

\* GetLink: Load(id); a missing entry is an error
FetchGetLink(t) ==
    /\ panic = "none"
    /\ UNCHANGED feedVars
    /\ UNCHANGED readVars
    /\ UNCHANGED shutVars
    /\ th[t].pc = "fLink"
    /\ IF t[2] \in Stored
         THEN th' = SetTh(t, [th[t] EXCEPT !.pc = "fHttp", !.link = cache[t[2]].link])
         ELSE th' = SetTh(t, [th[t] EXCEPT !.pc = "fRet", !.ret = "error"])
    /\ UNCHANGED <<env, cacheVars, clockVars, dc, discVars, auditVars, bcastVars, nCalls, panic>>

\* a variant in which a failed request marks the stored entry as not ready
FetchHttpFailureInvalidates(t) ==
    /\ panic = "none"
    /\ UNCHANGED feedVars
    /\ UNCHANGED readVars
    /\ UNCHANGED shutVars
    /\ th[t].pc = "fHttp"
    /\ \/ /\ env.fails \/ cancelled
          /\ th' = SetTh(t, [th[t] EXCEPT !.pc = "fRet", !.ret = "error"])
          /\ cache' = IF t[2] \in Stored THEN [cache EXCEPT ![t[2]].ready = FALSE] ELSE cache
       \/ \E resp \in env.states :
            /\ ~cancelled
            /\ th' = SetTh(t, [th[t] EXCEPT !.pc = "fCompare",
                                            !.new = FetchGame(th[t].link, resp, now)])
            /\ cache' = cache
    /\ UNCHANGED <<env, length, clockVars, dc, discVars, auditVars, bcastVars, nCalls, panic>>

\* a variant that reports a failed request as a change
FetchHttpFailureAsChange(t) ==
    /\ panic = "none"
    /\ UNCHANGED feedVars
    /\ UNCHANGED readVars
    /\ UNCHANGED shutVars
    /\ th[t].pc = "fHttp"
    /\ \/ /\ env.fails \/ cancelled
          /\ th' = SetTh(t, [th[t] EXCEPT !.pc = "fRet", !.ret = "changed"])
       \/ \E resp \in env.states :
            /\ ~cancelled
            /\ th' = SetTh(t, [th[t] EXCEPT !.pc = "fCompare",
                                            !.new = FetchGame(th[t].link, resp, now)])
    /\ UNCHANGED <<env, cacheVars, clockVars, dc, discVars, auditVars, bcastVars, nCalls, panic>>

\* FetchGame: the upstream request fails (as every request under a
\* cancelled context does), or answers one of its states
FetchHttp(t) ==
    /\ panic = "none"
    /\ UNCHANGED feedVars
    /\ UNCHANGED readVars
    /\ UNCHANGED shutVars
    /\ th[t].pc = "fHttp"
    /\ \/ /\ env.fails \/ cancelled
          /\ th' = SetTh(t, [th[t] EXCEPT !.pc = "fRet", !.ret = "error"])
       \/ \E resp \in env.states :
            /\ ~cancelled
            /\ th' = SetTh(t, [th[t] EXCEPT !.pc = "fCompare",
                                            !.new = FetchGame(th[t].link, resp, now)])
    /\ UNCHANGED <<env, cacheVars, clockVars, dc, discVars, auditVars, bcastVars, nCalls, panic>>

\* reflect.DeepEqual(oldGame, newGame): every field, the timestamp included
DeepEqual(g1, g2) == g1 = g2

\* the second Load and the comparison
FetchCompare(t) ==
    /\ panic = "none"
    /\ UNCHANGED feedVars
    /\ UNCHANGED readVars
    /\ UNCHANGED shutVars
    /\ th[t].pc = "fCompare"
    /\ IF t[2] \in Stored
         THEN IF DeepEqual(cache[t[2]], th[t].new)
                THEN th' = SetTh(t, [th[t] EXCEPT !.pc = "fRet", !.ret = "unchanged",
                                                  !.old = cache[t[2]], !.hadOld = TRUE])
                ELSE th' = SetTh(t, [th[t] EXCEPT !.pc = "fStore",
                                                  !.old = cache[t[2]], !.hadOld = TRUE])
         ELSE th' = SetTh(t, [th[t] EXCEPT !.pc = "fStore"])
    /\ UNCHANGED <<env, cacheVars, clockVars, dc, discVars, auditVars, bcastVars, nCalls, panic>>

\* Store(id, newGame); return true
FetchStore(t) ==
    /\ panic = "none"
    /\ UNCHANGED feedVars
    /\ UNCHANGED readVars
    /\ UNCHANGED shutVars
    /\ th[t].pc = "fStore"
    /\ cache' = Put(cache, t[2], th[t].new)
    /\ th' = SetTh(t, [th[t] EXCEPT !.pc = "fRet", !.ret = "changed"])
    /\ UNCHANGED <<env, length, clockVars, dc, discVars, auditVars, bcastVars, nCalls, panic>>

(***************************************************************************)
(* GameCache.GetOne, run by the goroutines a tick fans out ("d", "a").    *)
(***************************************************************************)
\* a GetOne that asked the upstream for a ready entry too
GetOneLoadAlwaysFetch(t) ==
    /\ panic = "none"
    /\ UNCHANGED feedVars
    /\ UNCHANGED readVars
    /\ UNCHANGED shutVars
    /\ t[1] \in {"d", "a"}
    /\ th[t].pc = "gLoad"
    /\ IF t[2] \notin Stored
         THEN th' = SetTh(t, [th[t] EXCEPT !.pc = "gDone", !.res = Nil])
         ELSE th' = SetTh(t, [th[t] EXCEPT !.pc = "fLink"])
    /\ UNCHANGED <<env, cacheVars, clockVars, dc, discVars, auditVars, bcastVars, nCalls, panic>>

\* the first Load: absent, ready, or unready (then Fetch)
GetOneLoad(t) ==
    /\ panic = "none"
    /\ UNCHANGED feedVars
    /\ UNCHANGED readVars
    /\ UNCHANGED shutVars
    /\ t[1] \in {"d", "a"}
    /\ th[t].pc = "gLoad"
    /\ IF t[2] \notin Stored
         THEN th' = SetTh(t, [th[t] EXCEPT !.pc = "gDone", !.res = Nil])
         ELSE IF cache[t[2]].ready
                THEN th' = SetTh(t, [th[t] EXCEPT !.pc = "gDone", !.res = cache[t[2]]])
                ELSE th' = SetTh(t, [th[t] EXCEPT !.pc = "fLink"])
    /\ UNCHANGED <<env, cacheVars, clockVars, dc, discVars, auditVars, bcastVars, nCalls, panic>>

\* Fetch has returned: give up unless it reported a change, else Load again
GetOneAfterFetch(t) ==
    /\ panic = "none"
    /\ UNCHANGED feedVars
    /\ UNCHANGED readVars
    /\ UNCHANGED shutVars
    /\ t[1] \in {"d", "a"}
    /\ th[t].pc = "fRet"
    /\ IF th[t].ret = "changed" /\ t[2] \in Stored
         THEN th' = SetTh(t, [ThreadOff EXCEPT !.pc = "gDone", !.res = cache[t[2]]])
         ELSE th' = SetTh(t, [ThreadOff EXCEPT !.pc = "gDone", !.res = Nil])
    /\ UNCHANGED <<env, cacheVars, clockVars, dc, discVars, auditVars, bcastVars, nCalls, panic>>

\* the goroutines of one fan-out and what they wrote into Data
Spawn(kind, ids) ==
    [t \in Threads |-> IF t[1] = kind /\ \E i \in 1..Len(ids) : ids[i] = t[2]
                         THEN [ThreadOff EXCEPT !.pc = "gLoad"] ELSE th[t]]
Joined(kind, ids) == \A i \in 1..Len(ids) : th[<<kind, ids[i]>>].pc = "gDone"
Collected(kind, ids) == [i \in 1..Len(ids) |-> th[<<kind, ids[i]>>].res]
Reaped(kind) == [t \in Threads |-> IF t[1] = kind THEN ThreadOff ELSE th[t]]

(***************************************************************************)
(* GameCache.Discover, called by c: the Discovery worker, or a caller of  *)
(* the harness.                                                           *)
(***************************************************************************)
SetDc(c, r) == [dc EXCEPT ![c] = r]
DiscoverCall(id, link) == [DiscoverOff EXCEPT !.pc = "load", !.id = id, !.link = link]

\* a Discover with no test of presence: a present id goes on to the Store
DiscoverLoadNoTest(c) ==
    /\ panic = "none"
    /\ UNCHANGED feedVars
    /\ UNCHANGED readVars
    /\ UNCHANGED shutVars
    /\ dc[c].pc = "load"
    /\ dc' = SetDc(c, [dc[c] EXCEPT !.pc = "check"])
    /\ UNCHANGED <<env, cacheVars, clockVars, discVars, auditVars, th, bcastVars, nCalls, panic>>

\* a Discover that were an upsert: a present id gets the link of the call
DiscoverLoadUpsert(c) ==
    /\ panic = "none"
    /\ UNCHANGED feedVars
    /\ UNCHANGED readVars
    /\ UNCHANGED shutVars
    /\ dc[c].pc = "load"
    /\ IF dc[c].id \in Stored
         THEN /\ dc' = SetDc(c, [dc[c] EXCEPT !.pc = "ret", !.ret = "false"])
              /\ cache' = [cache EXCEPT ![dc[c].id].link = dc[c].link]
         ELSE /\ dc' = SetDc(c, [dc[c] EXCEPT !.pc = "check"])
              /\ cache' = cache
    /\ UNCHANGED <<env, length, clockVars, discVars, auditVars, th, bcastVars, nCalls, panic>>

\* Load(id): a present id is (false, nil)
DiscoverLoad(c) ==
    /\ panic = "none"
    /\ UNCHANGED feedVars
    /\ UNCHANGED readVars
    /\ UNCHANGED shutVars
    /\ dc[c].pc = "load"
    /\ IF dc[c].id \in Stored
         THEN dc' = SetDc(c, [dc[c] EXCEPT !.pc = "ret", !.ret = "false"])
         ELSE dc' = SetDc(c, [dc[c] EXCEPT !.pc = "check"])
    /\ UNCHANGED <<env, cacheVars, clockVars, discVars, auditVars, th, bcastVars, nCalls, panic>>

\* gc.length == 255 is the error
DiscoverCheck(c) ==
    /\ panic = "none"
    /\ UNCHANGED feedVars
    /\ UNCHANGED readVars
    /\ UNCHANGED shutVars
    /\ dc[c].pc = "check"
    /\ IF length = CacheCap
         THEN dc' = SetDc(c, [dc[c] EXCEPT !.pc = "ret", !.ret = "full"])
         ELSE dc' = SetDc(c, [dc[c] EXCEPT !.pc = "store"])
    /\ UNCHANGED <<env, cacheVars, clockVars, discVars, auditVars, th, bcastVars, nCalls, panic>>

\* Store(id, placeholder)
DiscoverStore(c) ==
    /\ panic = "none"
    /\ UNCHANGED feedVars
    /\ UNCHANGED readVars
    /\ UNCHANGED shutVars
    /\ dc[c].pc = "store"
    /\ cache' = Put(cache, dc[c].id, Placeholder(dc[c].id, dc[c].link, now))
    /\ dc' = SetDc(c, [dc[c] EXCEPT !.pc = "incR"])
    /\ UNCHANGED <<env, length, clockVars, discVars, auditVars, th, bcastVars, nCalls, panic>>

\* gc.length++ reads ...
DiscoverIncRead(c) ==
    /\ panic = "none"
    /\ UNCHANGED feedVars
    /\ UNCHANGED readVars
    /\ UNCHANGED shutVars
    /\ dc[c].pc = "incR"
    /\ dc' = SetDc(c, [dc[c] EXCEPT !.pc = "incW", !.tmp = length])
    /\ UNCHANGED <<env, cacheVars, clockVars, discVars, auditVars, th, bcastVars, nCalls, panic>>

\* ... and writes; Discover returns (true, nil)
DiscoverIncWrite(c) ==
    /\ panic = "none"
    /\ UNCHANGED feedVars
    /\ UNCHANGED readVars
    /\ UNCHANGED shutVars
    /\ dc[c].pc = "incW"
    /\ length' = (dc[c].tmp + 1) % LengthMod
    /\ dc' = SetDc(c, [dc[c] EXCEPT !.pc = "ret", !.ret = "true", !.tmp = 0])
    /\ UNCHANGED <<env, cache, clockVars, discVars, auditVars, th, bcastVars, nCalls, panic>>

(***************************************************************************)
(* The Discovery worker: FindNewGames and updateGames.                    *)
(***************************************************************************)
\* the immediate run and every tick of the 15-minute ticker
FindNewGames ==
    /\ panic = "none"
    /\ UNCHANGED feedVars
    /\ UNCHANGED readVars
    /\ UNCHANGED shutVars
    /\ mpc = "wait"
    /\ dpc = "idle"
    /\ env.forever \/ nDisc < env.discTicks
    /\ dpc' = "list"
    /\ nDisc' = IF nDisc < env.discTicks THEN nDisc + 1 ELSE nDisc
    /\ UNCHANGED <<env, cacheVars, clockVars, dc, dSched, dI, dAdded, auditVars, th,
                   bcastVars, nCalls, panic>>

\* a variant in which a failed listing ends the worker
ListGamesByDateFatal ==
    /\ panic = "none"
    /\ UNCHANGED feedVars
    /\ UNCHANGED readVars
    /\ UNCHANGED shutVars
    /\ dpc = "list"
    /\ \/ /\ env.fails \/ cancelled
          /\ dpc' = "done"
          /\ UNCHANGED <<dSched, dI, dAdded, dc>>
       \/ \E s \in env.scheds :
            /\ ~cancelled
            /\ dSched' = s
            /\ dAdded' = <<>>
            /\ IF s = <<>>
                 THEN dpc' = "idle" /\ dI' = 0 /\ dc' = dc
                 ELSE /\ dpc' = "loop"
                      /\ dI' = 1
                      /\ dc' = SetDc(Worker, DiscoverCall(s[1][1], s[1][2]))
    /\ UNCHANGED <<env, cacheVars, clockVars, nDisc, auditVars, th, bcastVars, nCalls, panic>>

\* ListGamesByDate: an error (every request under a cancelled context is
\* one) ends the tick, else the schedule loop starts
\* with the first Discover (an empty schedule leaves added empty)
ListGamesByDate ==
    /\ panic = "none"
    /\ UNCHANGED feedVars
    /\ UNCHANGED readVars
    /\ UNCHANGED shutVars
    /\ dpc = "list"
    /\ \/ /\ env.fails \/ cancelled
          /\ dpc' = "idle"
          /\ UNCHANGED <<dSched, dI, dAdded, dc>>
       \/ \E s \in env.scheds :
            /\ ~cancelled
            /\ dSched' = s
            /\ dAdded' = <<>>
            /\ IF s = <<>>
                 THEN dpc' = "idle" /\ dI' = 0 /\ dc' = dc
                 ELSE /\ dpc' = "loop"
                      /\ dI' = 1
                      /\ dc' = SetDc(Worker, DiscoverCall(s[1][1], s[1][2]))
    /\ UNCHANGED <<env, cacheVars, clockVars, nDisc, auditVars, th, bcastVars, nCalls, panic>>

\* Discover returned to the schedule loop.  An error returns from updateGames
\* at once; true appends the id to added.  Past the last entry the hydration
\* goroutines are started, one GetOne per added id.
UpdateGamesAfterDiscover ==
    /\ panic = "none"
    /\ UNCHANGED feedVars
    /\ UNCHANGED readVars
    /\ UNCHANGED shutVars
    /\ dpc = "loop"
    /\ dc[Worker].pc = "ret"
    /\ LET added == IF dc[Worker].ret = "true" THEN Append(dAdded, dc[Worker].id) ELSE dAdded
       IN IF dc[Worker].ret = "full"
            THEN /\ dpc' = "idle" /\ dI' = 0 /\ dAdded' = <<>>
                 /\ dc' = SetDc(Worker, DiscoverOff)
                 /\ th' = th
            ELSE IF dI < Len(dSched)
                   THEN /\ dI' = dI + 1
                        /\ dAdded' = added
                        /\ dpc' = "loop"
                        /\ dc' = SetDc(Worker, DiscoverCall(dSched[dI + 1][1], dSched[dI + 1][2]))
                        /\ th' = th
                   ELSE /\ dI' = 0
                        /\ dAdded' = added
                        /\ dc' = SetDc(Worker, DiscoverOff)
                        /\ dpc' = IF added = <<>> THEN "idle" ELSE "wait"
                        /\ th' = IF added = <<>> THEN th ELSE Spawn("d", added)
    /\ UNCHANGED <<env, cacheVars, clockVars, dSched, nDisc, auditVars, bcastVars, nCalls, panic>>

\* wgGameInfo.Wait() returned: the add event goes on the event channel
UpdateGamesSend ==
    /\ panic = "none"
    /\ UNCHANGED feedVars
    /\ UNCHANGED readVars
    /\ UNCHANGED shutVars
    /\ dpc = "wait"
    /\ Joined("d", dAdded)
    /\ PumpTakes([event |-> "add", data |-> Collected("d", dAdded)])
    /\ nMsg' = nMsg
    /\ th' = Reaped("d")
    /\ dpc' = "idle"
    /\ dAdded' = <<>>
    /\ UNCHANGED <<env, cacheVars, clockVars, dc, dSched, dI, nDisc, auditVars,
                   clients, Count, chans, hpc, rc, nCalls, panic>>

(***************************************************************************)
(* The Audit worker: AuditGames, GameCache.Audit, GameCache.Delete.       *)
(***************************************************************************)
\* a variant that refreshes a live game whatever the age of its timestamp
DueForRefreshLiveAlways(game, t) ==
    \/ game.state.general = "Live"
    \/ game.state.general = "Preview" /\ t - game.ts > PreviewTTL
    \/ game.state.general = "Final" /\ t - game.ts > FinalTTL

\* a variant that refreshes every entry whose timestamp is older than the
\* refresh age of a live game, whatever its status
DueForRefreshAnyStatus(game, t) == t - game.ts > LiveTTL

\* time.Since(game.Metadata.Timestamp) against the status' refresh age
DueForRefresh(game, t) ==
    \/ game.state.general = "Live" /\ t - game.ts > LiveTTL
    \/ game.state.general = "Preview" /\ t - game.ts > PreviewTTL
    \/ game.state.general = "Final" /\ t - game.ts > FinalTTL

\* a variant that measures a final game's age from its timestamp
DueForPruneByTimestamp(game, t) ==
    \/ game.state.general = "Final" /\ t - game.ts > FinalPrune
    \/ game.state.general = "Preview" /\ game.ts - t > PreviewPrune

\* the else-if: Final and started over 15 hours ago, or Preview and
\* time.Until(game.Metadata.Timestamp) over 24 hours
DueForPrune(game, t) ==
    \/ game.state.general = "Final" /\ t - game.state.start > FinalPrune
    \/ game.state.general = "Preview" /\ game.ts - t > PreviewPrune

\* a tick of the ticker: Audit starts its Range with three empty lists
AuditGames ==
    /\ panic = "none"
    /\ UNCHANGED feedVars
    /\ UNCHANGED readVars
    /\ UNCHANGED shutVars
    /\ mpc = "wait"
    /\ apc = "idle"
    /\ env.forever \/ nAudit < env.auditTicks
    /\ nAudit' = IF nAudit < env.auditTicks THEN nAudit + 1 ELSE nAudit
    /\ apc' = "range"
    /\ aSnap' = Stored \cap GameIds
    /\ aVisited' = {}
    /\ updated' = <<>> /\ removed' = <<>> /\ failed' = <<>>
    /\ UNCHANGED <<env, cacheVars, clockVars, dc, discVars, aKey, aTmp, th,
                   bcastVars, nCalls, panic>>

\* Range calls the callback on a key not visited before, with the value the
\* map holds for it now (sync.Map.Range: no key is visited twice; a key
\* stored during the call may or may not be visited).  The unready filler
\* entries match no rule: their visits change nothing and are left out.
AuditVisit(k) ==
    /\ panic = "none"
    /\ UNCHANGED feedVars
    /\ UNCHANGED readVars
    /\ UNCHANGED shutVars
    /\ apc = "range"
    /\ k \in (Stored \cap GameIds) \ aVisited
    /\ aVisited' = aVisited \cup {k}
    /\ IF DueForRefresh(cache[k], now)
         THEN /\ apc' = "fetch"
              /\ aKey' = k
              /\ th' = SetTh(<<"s", k>>, [ThreadOff EXCEPT !.pc = "fLink"])
         ELSE IF DueForPrune(cache[k], now)
                THEN apc' = "delLoad" /\ aKey' = k /\ th' = th
                ELSE UNCHANGED <<apc, aKey, th>>
    /\ UNCHANGED <<env, cacheVars, clockVars, dc, discVars, aSnap, updated, removed, failed,
                   aTmp, nAudit, bcastVars, nCalls, panic>>

\* a variant that lists no changed refresh in updated
AuditAfterFetchDropsChanged ==
    /\ panic = "none"
    /\ UNCHANGED feedVars
    /\ UNCHANGED readVars
    /\ UNCHANGED shutVars
    /\ apc = "fetch"
    /\ th[<<"s", aKey>>].pc = "fRet"
    /\ failed' = IF th[<<"s", aKey>>].ret = "error" THEN Append(failed, aKey) ELSE failed
    /\ updated' = updated
    /\ th' = SetTh(<<"s", aKey>>, ThreadOff)
    /\ apc' = "range"
    /\ aKey' = 0
    /\ UNCHANGED <<env, cacheVars, clockVars, dc, discVars, aSnap, aVisited, removed, aTmp,
                   nAudit, bcastVars, nCalls, panic>>

\* the refresh returned: failed on an error, updated on a change
AuditAfterFetch ==
    /\ panic = "none"
    /\ UNCHANGED feedVars
    /\ UNCHANGED readVars
    /\ UNCHANGED shutVars
    /\ apc = "fetch"
    /\ th[<<"s", aKey>>].pc = "fRet"
    /\ failed' = IF th[<<"s", aKey>>].ret = "error" THEN Append(failed, aKey) ELSE failed
    /\ updated' = IF th[<<"s", aKey>>].ret = "changed" THEN Append(updated, aKey) ELSE updated
    /\ th' = SetTh(<<"s", aKey>>, ThreadOff)
    /\ apc' = "range"
    /\ aKey' = 0
    /\ UNCHANGED <<env, cacheVars, clockVars, dc, discVars, aSnap, aVisited, removed, aTmp,
                   nAudit, bcastVars, nCalls, panic>>

\* Delete: Load(id); an absent id is left alone (Audit still lists it in removed)
DeleteLoad ==
    /\ panic = "none"
    /\ UNCHANGED feedVars
    /\ UNCHANGED readVars
    /\ UNCHANGED shutVars
    /\ apc = "delLoad"
    /\ IF aKey \in Stored
         THEN apc' = "delDel" /\ UNCHANGED <<removed, aKey>>
         ELSE apc' = "range" /\ removed' = Append(removed, aKey) /\ aKey' = 0
    /\ UNCHANGED <<env, cacheVars, clockVars, dc, discVars, aSnap, aVisited, updated, failed,
                   aTmp, nAudit, th, bcastVars, nCalls, panic>>

\* Delete: cache.Delete(id)
DeleteDelete ==
    /\ panic = "none"
    /\ UNCHANGED feedVars
    /\ UNCHANGED readVars
    /\ UNCHANGED shutVars
    /\ apc = "delDel"
    /\ cache' = Remove(cache, aKey)
    /\ apc' = "decR"
    /\ UNCHANGED <<env, length, clockVars, dc, discVars, aSnap, aVisited, aKey, updated,
                   removed, failed, aTmp, nAudit, th, bcastVars, nCalls, panic>>

\* Delete: gc.length-- reads ...
DeleteDecRead ==
    /\ panic = "none"
    /\ UNCHANGED feedVars
    /\ UNCHANGED readVars
    /\ UNCHANGED shutVars
    /\ apc = "decR"
    /\ aTmp' = length
    /\ apc' = "decW"
    /\ UNCHANGED <<env, cacheVars, clockVars, dc, discVars, aSnap, aVisited, aKey, updated,
                   removed, failed, nAudit, th, bcastVars, nCalls, panic>>

\* ... and writes; back in Audit the id is appended to removed
DeleteDecWrite ==
    /\ panic = "none"
    /\ UNCHANGED feedVars
    /\ UNCHANGED readVars
    /\ UNCHANGED shutVars
    /\ apc = "decW"
    /\ length' = (aTmp - 1) % LengthMod
    /\ aTmp' = 0
    /\ removed' = Append(removed, aKey)
    /\ aKey' = 0
    /\ apc' = "range"
    /\ UNCHANGED <<env, cache, clockVars, dc, discVars, aSnap, aVisited, updated, failed,
                   nAudit, th, bcastVars, nCalls, panic>>

\* where AuditGames goes once the update event is dealt with
AfterUpdate == IF removed # <<>> THEN "sendR" ELSE IF failed # <<>> THEN "sendF" ELSE "idle"

\* Range returns once every key it started with was visited or is gone;
\* AuditGames then fans out one GetOne per updated id
AuditReturn ==
    /\ panic = "none"
    /\ UNCHANGED feedVars
    /\ UNCHANGED readVars
    /\ UNCHANGED shutVars
    /\ apc = "range"
    /\ (aSnap \ aVisited) \cap Stored = {}
    /\ IF updated # <<>>
         THEN apc' = "wait" /\ th' = Spawn("a", updated)
         ELSE apc' = AfterUpdate /\ th' = th
    /\ UNCHANGED <<env, cacheVars, clockVars, dc, discVars, aSnap, aVisited, aKey, updated,
                   removed, failed, aTmp, nAudit, bcastVars, nCalls, panic>>

\* wgGetGames.Wait() returned: the update event
AuditSendUpdate ==
    /\ panic = "none"
    /\ UNCHANGED feedVars
    /\ UNCHANGED readVars
    /\ UNCHANGED shutVars
    /\ apc = "wait"
    /\ Joined("a", updated)
    /\ PumpTakes([event |-> "update", data |-> Collected("a", updated)])
    /\ nMsg' = nMsg
    /\ th' = Reaped("a")
    /\ apc' = AfterUpdate
    /\ UNCHANGED <<env, cacheVars, clockVars, dc, discVars, aSnap, aVisited, aKey, updated,
                   removed, failed, aTmp, nAudit, clients, Count, chans, hpc, rc, nCalls, panic>>

\* the remove event: the ids of removed
AuditSendRemove ==
    /\ panic = "none"
    /\ UNCHANGED feedVars
    /\ UNCHANGED readVars
    /\ UNCHANGED shutVars
    /\ apc = "sendR"
    /\ PumpTakes([event |-> "remove", data |-> removed])
    /\ nMsg' = nMsg
    /\ apc' = IF failed # <<>> THEN "sendF" ELSE "idle"
    /\ UNCHANGED <<env, cacheVars, clockVars, dc, discVars, aSnap, aVisited, aKey, updated,
                   removed, failed, aTmp, nAudit, th, clients, Count, chans, hpc, rc,
                   nCalls, panic>>

\* the fail event: the ids of failed
AuditSendFail ==
    /\ panic = "none"
    /\ UNCHANGED feedVars
    /\ UNCHANGED readVars
    /\ UNCHANGED shutVars
    /\ apc = "sendF"
    /\ PumpTakes([event |-> "fail", data |-> failed])
    /\ nMsg' = nMsg
    /\ apc' = "idle"
    /\ UNCHANGED <<env, cacheVars, clockVars, dc, discVars, aSnap, aVisited, aKey, updated,
                   removed, failed, aTmp, nAudit, th, clients, Count, chans, hpc, rc,
                   nCalls, panic>>

(***************************************************************************)
(* Broadcaster.Deregister, called by c: the deferred call of an SSE       *)
(* handler, or a caller of the harness.                                   *)
(***************************************************************************)
SetRc(c, r) == [rc EXCEPT ![c] = r]
DeregCall(id) == [DeregOff EXCEPT !.pc = "load", !.id = id]

\* clients.Load(clientId): an unknown id is (false, error)
DeregisterLoad(c) ==
    /\ panic = "none"
    /\ UNCHANGED feedVars
    /\ UNCHANGED readVars
    /\ UNCHANGED shutVars
    /\ rc[c].pc = "load"
    /\ IF rc[c].id \in DOMAIN clients
         THEN rc' = SetRc(c, [rc[c] EXCEPT !.pc = "close", !.ch = clients[rc[c].id]])
         ELSE rc' = SetRc(c, [rc[c] EXCEPT !.pc = "ret", !.ret = "false"])
    /\ UNCHANGED <<progVars, clients, Count, chans, hpc, pumpVars, nCalls, panic>>

\* close(channel): closing a closed channel panics
DeregisterClose(c) ==
    /\ panic = "none"
    /\ UNCHANGED feedVars
    /\ UNCHANGED readVars
    /\ UNCHANGED shutVars
    /\ rc[c].pc = "close"
    /\ IF chans[rc[c].ch].closed
         THEN /\ panic' = "close of closed channel"
              /\ UNCHANGED <<chans, rc>>
         ELSE /\ chans' = [chans EXCEPT ![rc[c].ch].closed = TRUE]
              /\ rc' = SetRc(c, [rc[c] EXCEPT !.pc = "delete"])
              /\ panic' = panic
    /\ UNCHANGED <<progVars, clients, Count, hpc, pumpVars, nCalls>>

\* a Deregister that leaves the client in the table
DeregisterDeleteNothing(c) ==
    /\ panic = "none"
    /\ UNCHANGED feedVars
    /\ UNCHANGED readVars
    /\ UNCHANGED shutVars
    /\ rc[c].pc = "delete"
    /\ clients' = clients
    /\ rc' = SetRc(c, [rc[c] EXCEPT !.pc = "count"])
    /\ UNCHANGED <<progVars, Count, chans, hpc, pumpVars, nCalls, panic>>

\* clients.Delete(clientId)
DeregisterDelete(c) ==
    /\ panic = "none"
    /\ UNCHANGED feedVars
    /\ UNCHANGED readVars
    /\ UNCHANGED shutVars
    /\ rc[c].pc = "delete"
    /\ clients' = Remove(clients, rc[c].id)
    /\ rc' = SetRc(c, [rc[c] EXCEPT !.pc = "count"])
    /\ UNCHANGED <<progVars, Count, chans, hpc, pumpVars, nCalls, panic>>

\* atomic.AddInt32(&b.Count, -1); return (true, nil)
DeregisterCount(c) ==
    /\ panic = "none"
    /\ UNCHANGED feedVars
    /\ UNCHANGED readVars
    /\ UNCHANGED shutVars
    /\ rc[c].pc = "count"
    /\ Count' = Count - 1
    /\ rc' = SetRc(c, [rc[c] EXCEPT !.pc = "ret", !.ret = "true"])
    /\ UNCHANGED <<progVars, clients, chans, hpc, pumpVars, nCalls, panic>>

(***************************************************************************)
(* Games.GetUpdates, the SSE handler of connection n, with                *)
(* Broadcaster.Register.  uuid.NewRandom draws an id no other connection  *)
(* holds: the connection's own number.                                    *)
(***************************************************************************)
\* a request arrives: the handler makes its channel and calls Register
GetUpdates(n) ==
    /\ panic = "none"
    /\ UNCHANGED feedVars
    /\ UNCHANGED readVars
    /\ UNCHANGED shutVars
    /\ hpc[n] = "off"
    /\ hpc' = [hpc EXCEPT ![n] = "regLoad"]
    /\ UNCHANGED <<progVars, clients, Count, chans, rc, pumpVars, nCalls, panic>>

\* Register: clients.Load(id) until the id is free
RegisterLoad(n) ==
    /\ panic = "none"
    /\ UNCHANGED feedVars
    /\ UNCHANGED readVars
    /\ UNCHANGED shutVars
    /\ hpc[n] = "regLoad"
    /\ hpc' = [hpc EXCEPT ![n] = IF n \in DOMAIN clients THEN "regLoad" ELSE "regStore"]
    /\ UNCHANGED <<progVars, clients, Count, chans, rc, pumpVars, nCalls, panic>>

\* Register: clients.Store(id, channel)
RegisterStore(n) ==
    /\ panic = "none"
    /\ UNCHANGED feedVars
    /\ UNCHANGED readVars
    /\ UNCHANGED shutVars
    /\ hpc[n] = "regStore"
    /\ clients' = Put(clients, n, n)
    /\ hpc' = [hpc EXCEPT ![n] = "regCount"]
    /\ UNCHANGED <<progVars, Count, chans, rc, pumpVars, nCalls, panic>>

\* Register: atomic.AddInt32(&b.Count, 1).  Back in the handler Deregister
\* is deferred; a writer that cannot flush makes the handler return at once.
RegisterCount(n) ==
    /\ panic = "none"
    /\ UNCHANGED feedVars
    /\ UNCHANGED readVars
    /\ UNCHANGED shutVars
    /\ hpc[n] = "regCount"
    /\ Count' = Count + 1
    /\ \/ hpc' = [hpc EXCEPT ![n] = "loop"] /\ rc' = rc
       \/ /\ hpc' = [hpc EXCEPT ![n] = "dereg"]
          /\ rc' = SetRc(<<"c", n>>, DeregCall(n))
    /\ UNCHANGED <<progVars, clients, chans, pumpVars, nCalls, panic>>

\* a handler that took the newest message of its queue, not the oldest
HandlerReceiveNewest(n) ==
    /\ panic = "none"
    /\ UNCHANGED feedVars
    /\ UNCHANGED readVars
    /\ UNCHANGED shutVars
    /\ hpc[n] = "loop"
    /\ chans[n].buf # <<>>
    /\ chans' = [chans EXCEPT ![n].buf = SubSeq(chans[n].buf, 1, Len(chans[n].buf) - 1),
                              ![n].got = Append(chans[n].got, chans[n].buf[Len(chans[n].buf)])]
    /\ UNCHANGED <<progVars, clients, Count, hpc, rc, pumpVars, nCalls, panic>>

\* update := <-userChannel, written to the client
HandlerReceive(n) ==
    /\ panic = "none"
    /\ UNCHANGED feedVars
    /\ UNCHANGED readVars
    /\ UNCHANGED shutVars
    /\ hpc[n] = "loop"
    /\ chans[n].buf # <<>>
    /\ chans' = [chans EXCEPT ![n].buf = Tail(chans[n].buf),
                              ![n].got = Append(chans[n].got, Head(chans[n].buf))]
    /\ UNCHANGED <<progVars, clients, Count, hpc, rc, pumpVars, nCalls, panic>>

\* <-r.Context().Done(): the handler returns and the deferred Deregister runs
HandlerCancel(n) ==
    /\ panic = "none"
    /\ UNCHANGED feedVars
    /\ UNCHANGED readVars
    /\ UNCHANGED shutVars
    /\ hpc[n] = "loop"
    /\ hpc' = [hpc EXCEPT ![n] = "dereg"]
    /\ rc' = SetRc(<<"c", n>>, DeregCall(n))
    /\ UNCHANGED <<progVars, clients, Count, chans, pumpVars, nCalls, panic>>

\* the deferred Deregister returned: the handler is gone
HandlerReturn(n) ==
    /\ panic = "none"
    /\ UNCHANGED feedVars
    /\ UNCHANGED readVars
    /\ UNCHANGED shutVars
    /\ hpc[n] = "dereg"
    /\ rc[<<"c", n>>].pc = "ret"
    /\ hpc' = [hpc EXCEPT ![n] = "done"]
    /\ UNCHANGED <<progVars, clients, Count, chans, rc, pumpVars, nCalls, panic>>

(***************************************************************************)
(* Broadcaster.Broadcast, run by the pump goroutine of Initialize.        *)
(***************************************************************************)
\* Range calls the callback on a key not visited before, with its channel
BroadcastVisit(k) ==
    /\ panic = "none"
    /\ UNCHANGED feedVars
    /\ UNCHANGED readVars
    /\ UNCHANGED shutVars
    /\ ppc = "range"
    /\ k \in (DOMAIN clients) \ bVisited
    /\ bVisited' = bVisited \cup {k}
    /\ bKey' = clients[k]
    /\ ppc' = "send"
    /\ UNCHANGED <<progVars, clients, Count, chans, hpc, rc, pMsg, bSnap, bI, pLog, nMsg,
                   nCalls, panic>>

\* a Broadcast whose send has no default case: it waits for room in the queue
BroadcastSendBlocking ==
    /\ panic = "none"
    /\ UNCHANGED feedVars
    /\ UNCHANGED readVars
    /\ UNCHANGED shutVars
    /\ ppc = "send"
    /\ chans[bKey].closed \/ Len(chans[bKey].buf) < QueueCap
    /\ IF chans[bKey].closed
         THEN /\ panic' = "send on closed channel"
              /\ UNCHANGED <<chans, bI, ppc, bKey>>
         ELSE /\ panic' = panic
              /\ ppc' = "range"
              /\ bKey' = 0
              /\ chans' = [chans EXCEPT ![bKey].buf = Append(chans[bKey].buf, pMsg)]
              /\ bI' = bI + 1
    /\ UNCHANGED <<progVars, clients, Count, hpc, rc, pMsg, bSnap, bVisited, pLog, nMsg, nCalls>>

\* a Broadcast that made room in a full queue by displacing its oldest
\* message, and counted the send
BroadcastSendDisplacing ==
    /\ panic = "none"
    /\ UNCHANGED feedVars
    /\ UNCHANGED readVars
    /\ UNCHANGED shutVars
    /\ ppc = "send"
    /\ IF chans[bKey].closed
         THEN /\ panic' = "send on closed channel"
              /\ UNCHANGED <<chans, bI, ppc, bKey>>
         ELSE /\ panic' = panic
              /\ ppc' = "range"
              /\ bKey' = 0
              /\ bI' = bI + 1
              /\ IF Len(chans[bKey].buf) < QueueCap
                   THEN chans' = [chans EXCEPT ![bKey].buf = Append(chans[bKey].buf, pMsg)]
                   ELSE chans' = [chans EXCEPT ![bKey].buf = Append(Tail(chans[bKey].buf), pMsg)]
    /\ UNCHANGED <<progVars, clients, Count, hpc, rc, pMsg, bSnap, bVisited, pLog, nMsg, nCalls>>

\* select { case channel <- message: i++; default: drop }.  A send on a
\* closed channel panics.
BroadcastSend ==
    /\ panic = "none"
    /\ UNCHANGED feedVars
    /\ UNCHANGED readVars
    /\ UNCHANGED shutVars
    /\ ppc = "send"
    /\ IF chans[bKey].closed
         THEN /\ panic' = "send on closed channel"
              /\ UNCHANGED <<chans, bI, ppc, bKey>>
         ELSE /\ panic' = panic
              /\ ppc' = "range"
              /\ bKey' = 0
              /\ IF Len(chans[bKey].buf) < QueueCap
                   THEN /\ chans' = [chans EXCEPT ![bKey].buf = Append(chans[bKey].buf, pMsg)]
                        /\ bI' = bI + 1
                   ELSE UNCHANGED <<chans, bI>>
    /\ UNCHANGED <<progVars, clients, Count, hpc, rc, pMsg, bSnap, bVisited, pLog, nMsg, nCalls>>

\* Range returns once every key it started with was visited or is gone
BroadcastReturn ==
    /\ panic = "none"
    /\ UNCHANGED feedVars
    /\ UNCHANGED readVars
    /\ UNCHANGED shutVars
    /\ ppc = "range"
    /\ (bSnap \ bVisited) \cap DOMAIN clients = {}
    /\ ppc' = "log"
    /\ UNCHANGED <<progVars, clients, Count, chans, hpc, rc, pMsg, bSnap, bVisited, bKey, bI,
                   pLog, nMsg, nCalls, panic>>

\* logger.Printf("sent update to %d of %d connected clients", countSent, broadcaster.Count)
PumpLog ==
    /\ panic = "none"
    /\ UNCHANGED feedVars
    /\ UNCHANGED readVars
    /\ UNCHANGED shutVars
    /\ ppc = "log"
    /\ pLog' = <<bI, Count>>
    /\ ppc' = "recv"
    /\ pMsg' = NoMsg
    /\ bSnap' = {} /\ bVisited' = {} /\ bI' = 0
    /\ UNCHANGED <<progVars, clients, Count, chans, hpc, rc, bKey, nMsg, nCalls, panic>>

\* a worker hands its next event to the pump
WorkerSends ==
    /\ panic = "none"
    /\ UNCHANGED feedVars
    /\ UNCHANGED readVars
    /\ UNCHANGED shutVars
    /\ nMsg < MaxMsgs
    /\ PumpTakes([event |-> "update", data |-> <<nMsg + 1>>])
    /\ nMsg' = nMsg + 1
    /\ UNCHANGED <<progVars, clients, Count, chans, hpc, rc, nCalls, panic>>

(***************************************************************************)
(* The running service with no SSE client connected: both workers, their  *)
(* goroutines, the pump, the clock.                                        *)
(***************************************************************************)
\* a day's schedule grows: its first k games, k = 1..NumGames
EnvGeneral ==
    [scheds |-> { ScheduleOf(1..k, v) : k \in 1..NumGames, v \in LinkVariants },
     states |-> UpstreamStates,
     fails  |-> TRUE,
     forever |-> FALSE, step |-> ClockStep,
     discTicks |-> MaxDiscTicks, auditTicks |-> MaxAuditTicks, advances |-> MaxAdvance]

Init == InitWith(EnvGeneral, 0) /\ NoSubscribers /\ Serving

Next ==
    \/ Tick
    \/ FindNewGames
    \/ ListGamesByDate
    \/ DiscoverLoad(Worker)
    \/ DiscoverCheck(Worker)
    \/ DiscoverStore(Worker)
    \/ DiscoverIncRead(Worker)
    \/ DiscoverIncWrite(Worker)
    \/ UpdateGamesAfterDiscover
    \/ UpdateGamesSend
    \/ AuditGames
    \/ \E k \in GameIds : AuditVisit(k)
    \/ AuditAfterFetch
    \/ DeleteLoad
    \/ DeleteDelete
    \/ DeleteDecRead
    \/ DeleteDecWrite
    \/ AuditReturn
    \/ AuditSendUpdate
    \/ AuditSendRemove
    \/ AuditSendFail
    \/ \E t \in Threads : FetchGetLink(t)
    \/ \E t \in Threads : FetchHttp(t)
    \/ \E t \in Threads : FetchCompare(t)
    \/ \E t \in Threads : FetchStore(t)
    \/ \E t \in Threads : GetOneLoad(t)
    \/ \E t \in Threads : GetOneAfterFetch(t)
    \/ BroadcastReturn
    \/ PumpLog

Spec == Init /\ [][Next]_vars

(***************************************************************************)
(* The same service on a day with NumIds games, all of them over, and a   *)
(* cache two entries short of its capacity.                               *)
(***************************************************************************)
EnvCap ==
    [scheds |-> { ScheduleOf({NumIds}, 1), ScheduleOf(GameIds, 1) },
     states |-> {FinalOld},
     fails  |-> FALSE,
     forever |-> FALSE, step |-> ClockStep,
     discTicks |-> CapDiscTicks, auditTicks |-> CapAuditTicks, advances |-> 0]

InitCap == InitWith(EnvCap, CacheCap - 2) /\ NoSubscribers /\ Serving

\* with no clock advance and every game over, Audit only prunes
NextCap ==
    \/ FindNewGames
    \/ ListGamesByDate
    \/ DiscoverLoad(Worker)
    \/ DiscoverCheck(Worker)
    \/ DiscoverStore(Worker)
    \/ DiscoverIncRead(Worker)
    \/ DiscoverIncWrite(Worker)
    \/ UpdateGamesAfterDiscover
    \/ UpdateGamesSend
    \/ AuditGames
    \/ \E k \in GameIds : AuditVisit(k)
    \/ DeleteLoad
    \/ DeleteDelete
    \/ DeleteDecRead
    \/ DeleteDecWrite
    \/ AuditReturn
    \/ AuditSendRemove
    \/ \E t \in Threads : FetchGetLink(t)
    \/ \E t \in Threads : FetchHttp(t)
    \/ \E t \in Threads : FetchCompare(t)
    \/ \E t \in Threads : FetchStore(t)
    \/ \E t \in Threads : GetOneLoad(t)
    \/ \E t \in Threads : GetOneAfterFetch(t)
    \/ BroadcastReturn
    \/ PumpLog

SpecCap == InitCap /\ [][NextCap]_vars

(***************************************************************************)
(* The broadcaster alone: SSE handlers come and go while a worker hands   *)
(* events to the pump.  The service starts with no subscriber, or with    *)
(* connection 1 subscribed and stalled: its client stopped reading and    *)
(* its queue holds all but one of the messages it can hold.               *)
(***************************************************************************)
EnvIdle ==
    [scheds |-> {}, states |-> {}, fails |-> FALSE, forever |-> FALSE, step |-> ClockStep,
     discTicks |-> 0, auditTicks |-> 0, advances |-> 0]

OldMsg == [event |-> "update", data |-> <<0>>]

StalledSubscriber ==
    /\ clients = Put(<< >>, 1, 1)
    /\ Count = 1
    /\ chans = [n \in Conns |-> IF n = 1 THEN [buf |-> [i \in 1..(QueueCap - 1) |-> OldMsg],
                                                closed |-> FALSE, got |-> <<>>]
                                         ELSE NoChan]
    /\ hpc = [n \in Conns |-> IF n = 1 THEN "loop" ELSE "off"]

InitBcast == InitWith(EnvIdle, 0) /\ (NoSubscribers \/ StalledSubscriber) /\ Serving

NextBcast ==
    \/ WorkerSends
    \/ \E k \in Conns : BroadcastVisit(k)
    \/ BroadcastSend
    \/ BroadcastReturn
    \/ PumpLog
    \/ \E n \in Conns : GetUpdates(n)
    \/ \E n \in Conns : RegisterLoad(n)
    \/ \E n \in Conns : RegisterStore(n)
    \/ \E n \in Conns : RegisterCount(n)
    \/ \E n \in Conns : HandlerReceive(n)
    \/ \E n \in Conns : HandlerCancel(n)
    \/ \E n \in Conns : HandlerReturn(n)
    \/ \E n \in Conns : DeregisterLoad(<<"c", n>>)
    \/ \E n \in Conns : DeregisterClose(<<"c", n>>)
    \/ \E n \in Conns : DeregisterDelete(<<"c", n>>)
    \/ \E n \in Conns : DeregisterCount(<<"c", n>>)

SpecBcast == InitBcast /\ [][NextBcast]_vars

(***************************************************************************)
(* The exported operations called concurrently: NumCallers goroutines,    *)
(* each making up to MaxCalls calls of GameCache.Discover or of           *)
(* Broadcaster.Deregister, on an empty cache and with connection 1        *)
(* subscribed.                                                            *)
(***************************************************************************)
Subscribed ==
    /\ clients = Put(<< >>, 1, 1)
    /\ Count = 1
    /\ chans = [n \in Conns |-> NoChan]
    /\ hpc = [n \in Conns |-> IF n = 1 THEN "loop" ELSE "off"]

Callable(c) ==
    /\ panic = "none"
    /\ UNCHANGED feedVars
    /\ UNCHANGED readVars
    /\ UNCHANGED shutVars
    /\ nCalls[c] < MaxCalls
    /\ dc[c].pc \in {"off", "ret"}
    /\ rc[c].pc \in {"off", "ret"}

\* caller c enters gc.Discover(id, link)
CallDiscover(c) ==
    /\ Callable(c)
    /\ \E id \in GameIds, v \in LinkVariants : dc' = SetDc(c, DiscoverCall(id, <<id, v>>))
    /\ nCalls' = [nCalls EXCEPT ![c] = @ + 1]
    /\ UNCHANGED <<env, cacheVars, clockVars, discVars, auditVars, th, bcastVars, panic>>

\* caller c enters b.Deregister(id)
CallDeregister(c) ==
    /\ Callable(c)
    /\ \E id \in Conns : rc' = SetRc(c, DeregCall(id))
    /\ nCalls' = [nCalls EXCEPT ![c] = @ + 1]
    /\ UNCHANGED <<progVars, clients, Count, chans, hpc, pumpVars, panic>>

InitApi == InitWith(EnvIdle, 0) /\ Subscribed /\ Serving

NextApi ==
    \/ \E c \in HarnessCallers : CallDiscover(c)
    \/ \E c \in HarnessCallers : DiscoverLoad(c)
    \/ \E c \in HarnessCallers : DiscoverCheck(c)
    \/ \E c \in HarnessCallers : DiscoverStore(c)
    \/ \E c \in HarnessCallers : DiscoverIncRead(c)
    \/ \E c \in HarnessCallers : DiscoverIncWrite(c)
    \/ \E c \in HarnessCallers : CallDeregister(c)
    \/ \E c \in HarnessCallers : DeregisterLoad(c)
    \/ \E c \in HarnessCallers : DeregisterClose(c)
    \/ \E c \in HarnessCallers : DeregisterDelete(c)
    \/ \E c \in HarnessCallers : DeregisterCount(c)

SpecApi == InitApi /\ [][NextApi]_vars

(***************************************************************************)
(* Properties of GameCache.Fetch.                                         *)
(***************************************************************************)
\* the projection of a game without the moment of projection
SameButTimestamp(g1, g2) == g1.id = g2.id /\ g1.link = g2.link /\ g1.state = g2.state

\* C1: a Fetch whose upstream response projects to the id, link and state of
\* the stored record returns false (and so leaves the record, timestamp
\* included, as it was).
C1_IdenticalResponseReturnsFalse ==
    \A t \in Threads :
        (th[t].pc = "fRet" /\ th[t].hadOld /\ SameButTimestamp(th[t].old, th[t].new))
            => th[t].ret = "unchanged"

(***************************************************************************)
(* Properties of the Broadcaster.                                         *)
(***************************************************************************)
\* C2: Broadcast never attempts to enqueue on a queue Deregister has closed:
\* the process never dies of a send on a closed channel.
C2_NoSendOnClosedQueue == panic # "send on closed channel"

\* C8: whatever the interleaving of the Deregister calls on one id, no queue
\* is closed twice: the process never dies of a double close.
C8_QueueClosedOnce == panic # "close of closed channel"

C10_SentAtMostCount == (ppc = "log") => (bI <= Count)

(***************************************************************************)
(* Properties of the cache's capacity and of Discover.                    *)
(***************************************************************************)
\* C3: the cache map never holds more than CacheCap entries
C3_AtMostCapacity == Cardinality(Stored) <= CacheCap

\* C4: a Discover of an absent id that reaches its capacity test while the
\* cache holds CacheCap entries returns the error and leaves cache and
\* length as they were
C4_FullCacheRejects ==
    [][ ( /\ dc[Worker].pc = "check"
          /\ dc'[Worker].pc # "check"
          /\ Cardinality(Stored) = CacheCap
          /\ dc[Worker].id \notin Stored )
        => ( /\ dc'[Worker].pc = "ret"
             /\ dc'[Worker].ret = "full"
             /\ cache' = cache
             /\ length' = length ) ]_vars

\* C5: a Discover(id, link2) of an id that is stored (discovered before and
\* not deleted since), ready or not, returns (false, nil) and leaves the
\* cache, the entry's link included, and length as they were
C5_RediscoverIsNoOp ==
    [][ ( /\ dc[Worker].pc = "load"
          /\ dc'[Worker] # dc[Worker]
          /\ dc[Worker].id \in Stored )
        => ( /\ dc'[Worker].pc = "ret"
             /\ dc'[Worker].ret = "false"
             /\ cache' = cache
             /\ length' = length ) ]_vars

\* the worker's Discover of a stored, hydrated game has returned false, and
\* the entry kept a link other than the one of the call
C5_Witness ==
    /\ dc[Worker].pc = "ret"
    /\ dc[Worker].ret = "false"
    /\ dc[Worker].id \in Stored
    /\ cache[dc[Worker].id].ready
    /\ cache[dc[Worker].id].link # dc[Worker].link

\* the callers of Discover(id, _) so far
CallersOf(id) == { c \in HarnessCallers : dc[c].pc # "off" /\ dc[c].id = id }

\* C6: once concurrent Discover calls for the same absent id have all
\* returned, exactly one returned true, the id has its entry and length
\* counts the entries
C6_OneDiscoverWins ==
    \A id \in GameIds :
        ( /\ Cardinality(CallersOf(id)) > 1
          /\ \A c \in HarnessCallers : dc[c].pc \in {"off", "ret"} )
        => ( /\ Cardinality({ c \in CallersOf(id) : dc[c].ret = "true" }) = 1
             /\ \A c \in CallersOf(id) : dc[c].ret \in {"true", "false"}
             /\ id \in Stored
             /\ length = Cardinality(Stored) )

(***************************************************************************)
(* Properties of GameCache.Audit.                                         *)
(***************************************************************************)
Elems(seq) == { seq[i] : i \in 1..Len(seq) }
NoDuplicates(seq) == Cardinality(Elems(seq)) = Len(seq)

\* C7: the lists of a sweep are pairwise disjoint, hold no id twice, and
\* hold only ids that were keys of the cache when the sweep started
C7_SweepLists ==
    (apc # "idle") =>
        /\ Elems(updated) \cap Elems(removed) = {}
        /\ Elems(updated) \cap Elems(failed) = {}
        /\ Elems(removed) \cap Elems(failed) = {}
        /\ NoDuplicates(updated) /\ NoDuplicates(removed) /\ NoDuplicates(failed)
        /\ Elems(updated) \cup Elems(removed) \cup Elems(failed) \subseteq aSnap

(***************************************************************************)
(* Properties of the event stream of a subscriber.                        *)
(***************************************************************************)
\* the number a worker gave the event: 1, 2, ... in the order the events
\* were put on the event channel, 0 for the events of an earlier backlog
MsgNo(m) == m.data[1]

\* what the subscriber of connection n has been given and will be given
\* next: the messages written to its client, then those in its queue
Stream(n) == chans[n].got \o chans[n].buf

\* C11 (amended): the stream of every subscriber lists events that were put
\* on the event channel, in the order they were put there, none of them
\* twice; events may be missing.
C11_StreamIsSubsequence ==
    \A n \in Conns :
        /\ \A i \in 1..Len(Stream(n)) : MsgNo(Stream(n)[i]) \in 0..nMsg
        /\ \A i, j \in 1..Len(Stream(n)) :
              (i < j) => /\ MsgNo(Stream(n)[i]) <= MsgNo(Stream(n)[j])
                         /\ (MsgNo(Stream(n)[j]) > 0) => (MsgNo(Stream(n)[i]) < MsgNo(Stream(n)[j]))

\* the stalled subscriber has read its whole queue: the backlog, then
\* event 1; event 2, dropped on the full queue, is missing
C11_Witness ==
    /\ nMsg = 2 /\ ppc = "recv"
    /\ 1 \in DOMAIN clients
    /\ chans[1].buf = <<>>
    /\ Len(chans[1].got) = QueueCap
    /\ MsgNo(chans[1].got[QueueCap]) = 1

\* C11 (as stated): Broadcast enqueues an event only for a subscriber that
\* was registered when the event was put on the event channel
C11_OnlyEventsSinceRegistered ==
    [][ (ppc = "send" /\ chans'[bKey].buf # chans[bKey].buf /\ ppc' = "range")
          => bKey \in bSnap ]_vars

(***************************************************************************)
(* Properties of GameCache.GetOne.                                        *)
(***************************************************************************)
GetOneThreads == { t \in Threads : t[1] \in {"d", "a"} }

\* the first Load of GetOne decides: an absent id is (zero, false), a ready
\* entry is returned as stored with no Fetch, an unready entry is fetched
GetOneFirstLoad(t) ==
    (th[t].pc = "gLoad" /\ th'[t] # th[t]) =>
        /\ cache' = cache
        /\ IF t[2] \notin Stored THEN th'[t].pc = "gDone" /\ th'[t].res = Nil
           ELSE IF cache[t[2]].ready THEN th'[t].pc = "gDone" /\ th'[t].res = cache[t[2]]
           ELSE th'[t].pc = "fLink"

\* a Fetch that fails writes nothing
FailedFetchWritesNothing(t) ==
    (th'[t] # th[t] /\ th'[t].pc = "fRet" /\ th'[t].ret = "error") => cache' = cache

\* the steps of GetOne: its first Load, its one Fetch, its second Load
GetOneSteps ==
    [][ \A t \in GetOneThreads :
          /\ GetOneFirstLoad(t)
          /\ FailedFetchWritesNothing(t)
          /\ (th[t].pc = "fRet" /\ th'[t] # th[t]) =>
                /\ th'[t].pc = "gDone"
                /\ cache' = cache
                /\ IF th[t].ret = "changed" /\ t[2] \in Stored
                     THEN th'[t].res = cache[t[2]] /\ cache[t[2]].ready
                     ELSE th'[t].res = Nil /\ (th[t].ret = "error" \/ t[2] \notin Stored) ]_vars

\* a failed Fetch leaves GetOne's entry the unready placeholder with its link
FailedFetchKeepsPlaceholder ==
    \A t \in GetOneThreads :
        (th[t].pc = "fRet" /\ th[t].ret = "error") =>
            /\ t[2] \in Stored
            /\ ~cache[t[2]].ready
            /\ cache[t[2]].link = th[t].link

\* C12 (amended): GetOne returns (stored game, true) with no Fetch for a
\* ready entry and (zero, false) for an absent id; for an unready entry it
\* runs one Fetch, and returns (zero, false) if the Fetch failed, which wrote
\* nothing and left the unready placeholder with its link, and else the
\* entry it loads again: the hydrated game and true, or (zero, false) if the
\* entry has been deleted in between.
C12_GetOneContract == GetOneSteps /\ []FailedFetchKeepsPlaceholder

\* a hydration failed upstream: GetOne returned (zero, false) and the entry
\* is still the unready placeholder
C12_Witness ==
    \E t \in GetOneThreads :
        /\ th[t].pc = "gDone"
        /\ th[t].res = Nil
        /\ t[2] \in Stored
        /\ ~cache[t[2]].ready

\* C12 (as stated): a GetOne whose Fetch succeeded returns the hydrated game
\* and true
C12_FetchedThenReturned ==
    [][ \A t \in GetOneThreads :
          (th[t].pc = "fRet" /\ th'[t] # th[t] /\ th[t].ret # "error") =>
              /\ th'[t].res # Nil
              /\ th'[t].res.ready ]_vars

(***************************************************************************)
(* GameCache.GetAll, as one read of length followed by one Range over the *)
(* map: a slice of length entries is filled with the ready games, in the  *)
(* order of the Range; the games are given here as a set.  Storing more   *)
(* games than the slice has room for is an index out of range.            *)
(***************************************************************************)
ReadyIds(c) == { k \in DOMAIN c : c[k].ready }

GetAll(c, len) ==
    IF len > 0
      THEN IF Cardinality(ReadyIds(c)) > len
             THEN [panic |-> "index out of range", games |-> {}]
             ELSE [panic |-> "none", games |-> { c[k] : k \in ReadyIds(c) }]
      ELSE [panic |-> "none", games |-> {}]

\* C13: GetAll returns exactly the ready entries of the cache: every ready
\* entry and no unready placeholder
C13_GetAllReturnsReady ==
    /\ GetAll(cache, length).panic = "none"
    /\ GetAll(cache, length).games = { cache[k] : k \in ReadyIds(cache) }

(***************************************************************************)
(* Startup and shutdown: main, Initialize, the shutdown observer, the     *)
(* return of the two workers and of the broadcaster pump.                 *)
(***************************************************************************)
\* main's signal goroutine: cancel()
Cancel ==
    /\ panic = "none"
    /\ UNCHANGED feedVars
    /\ UNCHANGED readVars
    /\ ~cancelled
    /\ cancelled' = TRUE
    /\ UNCHANGED <<progVars, bcastVars, nCalls, wg, updates, opc, mpc, panic>>

\* Initialize: wg.Add(2) and the two go statements, after the pump and the
\* observer were started; main then goes on to wg.Wait()
StartWorkers ==
    /\ panic = "none"
    /\ UNCHANGED feedVars
    /\ UNCHANGED readVars
    /\ mpc = "init"
    /\ wg' = wg + 2
    /\ mpc' = "wait"
    /\ UNCHANGED <<progVars, bcastVars, nCalls, cancelled, updates, opc, panic>>

\* FindNewGames, after its first updateGames: case <-ctx.Done(): return,
\* with the deferred wg.Done()
FindNewGamesReturn ==
    /\ panic = "none"
    /\ UNCHANGED feedVars
    /\ UNCHANGED readVars
    /\ mpc = "wait"
    /\ dpc = "idle"
    /\ nDisc > 0
    /\ cancelled
    /\ dpc' = "done"
    /\ wg' = wg - 1
    /\ UNCHANGED <<env, cacheVars, clockVars, dc, dSched, dI, dAdded, nDisc, auditVars, th,
                   bcastVars, nCalls, cancelled, updates, opc, mpc, panic>>

\* AuditGames: case <-ctx.Done(): return, with the deferred wg.Done()
AuditGamesReturn ==
    /\ panic = "none"
    /\ UNCHANGED feedVars
    /\ UNCHANGED readVars
    /\ mpc = "wait"
    /\ apc = "idle"
    /\ cancelled
    /\ apc' = "done"
    /\ wg' = wg - 1
    /\ UNCHANGED <<env, cacheVars, clockVars, dc, discVars, aSnap, aVisited, aKey, updated,
                   removed, failed, aTmp, nAudit, th, bcastVars, nCalls, cancelled, updates,
                   opc, mpc, panic>>

\* the shutdown observer: <-ctx.Done()
ObserverWakes ==
    /\ panic = "none"
    /\ UNCHANGED feedVars
    /\ UNCHANGED readVars
    /\ opc = "ctx"
    /\ cancelled
    /\ opc' = "wg"
    /\ UNCHANGED <<progVars, bcastVars, nCalls, cancelled, wg, updates, mpc, panic>>

\* the shutdown observer: wg.Wait() returns when the counter is zero
ObserverWaited ==
    /\ panic = "none"
    /\ UNCHANGED feedVars
    /\ UNCHANGED readVars
    /\ opc = "wg"
    /\ wg = 0
    /\ opc' = "close"
    /\ UNCHANGED <<progVars, bcastVars, nCalls, cancelled, wg, updates, mpc, panic>>

\* the shutdown observer: close(updates)
ObserverCloses ==
    /\ panic = "none"
    /\ UNCHANGED feedVars
    /\ UNCHANGED readVars
    /\ opc = "close"
    /\ IF updates = "closed"
         THEN panic' = "close of closed channel" /\ UNCHANGED <<updates, opc>>
         ELSE updates' = "closed" /\ opc' = "done" /\ panic' = panic
    /\ UNCHANGED <<progVars, bcastVars, nCalls, cancelled, wg, mpc>>

\* the pump: msg, ok := <-updates with ok false: return
PumpReturns ==
    /\ panic = "none"
    /\ UNCHANGED feedVars
    /\ UNCHANGED readVars
    /\ ppc = "recv"
    /\ updates = "closed"
    /\ ppc' = "done"
    /\ UNCHANGED <<progVars, clients, Count, chans, hpc, rc, pMsg, bSnap, bVisited, bKey, bI,
                   pLog, nMsg, nCalls, shutVars, panic>>

\* main: wg.Wait() returns, main returns and the process is gone
MainReturns ==
    /\ panic = "none"
    /\ UNCHANGED feedVars
    /\ UNCHANGED readVars
    /\ mpc = "wait"
    /\ wg = 0
    /\ panic' = "exit"
    /\ UNCHANGED <<progVars, bcastVars, nCalls, shutVars>>

(***************************************************************************)
(* The service from its start to its exit, with no SSE client: one game   *)
(* in the schedule, live or over, a context cancelled at any moment.      *)
(***************************************************************************)
\* pump and observer are running, the workers are not started yet
Starting ==
    /\ cancelled = FALSE
    /\ wg = 0
    /\ updates = "open"
    /\ opc = "ctx"
    /\ mpc = "init"

EnvShut ==
    [scheds |-> { ScheduleOf({1}, 1) },
     states |-> {LiveNow, FinalOld},
     fails  |-> FALSE,
     forever |-> FALSE, step |-> ClockStep,
     discTicks |-> ShutDiscTicks, auditTicks |-> ShutAuditTicks, advances |-> ShutAdvance]

InitShut == InitWith(EnvShut, 0) /\ NoSubscribers /\ Starting

\* every step but the signal
RunShut ==
    \/ StartWorkers
    \/ Tick
    \/ FindNewGames
    \/ ListGamesByDate
    \/ DiscoverLoad(Worker)
    \/ DiscoverCheck(Worker)
    \/ DiscoverStore(Worker)
    \/ DiscoverIncRead(Worker)
    \/ DiscoverIncWrite(Worker)
    \/ UpdateGamesAfterDiscover
    \/ UpdateGamesSend
    \/ AuditGames
    \/ \E k \in GameIds : AuditVisit(k)
    \/ AuditAfterFetch
    \/ DeleteLoad
    \/ DeleteDelete
    \/ DeleteDecRead
    \/ DeleteDecWrite
    \/ AuditReturn
    \/ AuditSendUpdate
    \/ AuditSendRemove
    \/ AuditSendFail
    \/ \E t \in Threads : FetchGetLink(t)
    \/ \E t \in Threads : FetchHttp(t)
    \/ \E t \in Threads : FetchCompare(t)
    \/ \E t \in Threads : FetchStore(t)
    \/ \E t \in Threads : GetOneLoad(t)
    \/ \E t \in Threads : GetOneAfterFetch(t)
    \/ BroadcastReturn
    \/ PumpLog
    \/ FindNewGamesReturn
    \/ AuditGamesReturn
    \/ ObserverWakes
    \/ ObserverWaited
    \/ ObserverCloses
    \/ PumpReturns
    \/ MainReturns

NextShut == Cancel \/ RunShut

\* the Go scheduler runs every goroutine that can run, tickers fire and
\* requests end; only the signal may never come
SpecShut == InitShut /\ [][NextShut]_vars /\ WF_vars(RunShut)

(***************************************************************************)
(* Claims about shutdown.                                                  *)
(***************************************************************************)
\* a worker stands at a send on the event channel
AtSend ==
    \/ dpc = "wait"
    \/ apc = "wait" /\ updated # <<>>
    \/ apc \in {"sendR", "sendF"}

\* no worker reaches a send on the event channel once it is closed
NoSendAfterClose == updates = "closed" => ~AtSend

\* C14: the event channel is closed exactly once and only after both the
\* Discovery worker and the Audit worker have returned, and no worker sends
\* on it after it has been closed
C14_ClosedAfterWorkersReturned ==
    /\ panic # "close of closed channel"
    /\ updates = "closed" => dpc = "done" /\ apc = "done"
    /\ NoSendAfterClose

\* C15: after the root context is cancelled the shutdown sequence completes
\* before the process exits: both workers have returned, the observer has
\* closed the event channel and the pump has seen it closed and returned
C15_ExitAfterShutdown ==
    panic = "exit" => /\ dpc = "done" /\ apc = "done"
                      /\ updates = "closed"
                      /\ ppc = "done"

\* after a cancellation both workers return, whatever they were doing
WorkersReturn == cancelled ~> (dpc = "done" /\ apc = "done")

\* C16: with no subscriber, shutdown terminates: after the root context is
\* cancelled no worker stays blocked on a send, both workers return and the
\* event channel is eventually closed
C16_ShutdownTerminates ==
    cancelled ~> (dpc = "done" /\ apc = "done" /\ updates = "closed")

(***************************************************************************)
(* The service running for ever: worker ticks recur without end, the      *)
(* upstream may fail at first and recovers for good at some moment; the   *)
(* one game of the schedule is announced or live.                         *)
(***************************************************************************)
EnvRetry ==
    [scheds |-> { ScheduleOf({1}, 1) },
     states |-> {PreviewSoon, LiveNow},
     fails  |-> TRUE,
     forever |-> TRUE, step |-> ClockStep,
     discTicks |-> 1, auditTicks |-> 1, advances |-> RetryAdvance]

InitRetry == InitWith(EnvRetry, 0) /\ NoSubscribers /\ Serving

\* from now on no request to the upstream fails
UpstreamRecovers ==
    /\ panic = "none"
    /\ UNCHANGED feedVars
    /\ UNCHANGED readVars
    /\ env.fails
    /\ env' = [env EXCEPT !.fails = FALSE]
    /\ UNCHANGED <<cacheVars, clockVars, dc, discVars, auditVars, th, bcastVars, nCalls,
                   shutVars, panic>>

\* the steps of the Discovery worker
DiscoverySteps ==
    \/ FindNewGames
    \/ ListGamesByDate
    \/ DiscoverLoad(Worker)
    \/ DiscoverCheck(Worker)
    \/ DiscoverStore(Worker)
    \/ DiscoverIncRead(Worker)
    \/ DiscoverIncWrite(Worker)
    \/ UpdateGamesAfterDiscover
    \/ UpdateGamesSend

\* the steps of the Audit worker; no game of this upstream is over, so
\* none is ever pruned
AuditSteps ==
    \/ AuditGames
    \/ \E k \in GameIds : AuditVisit(k)
    \/ AuditAfterFetch
    \/ AuditReturn
    \/ AuditSendUpdate
    \/ AuditSendFail

\* the steps of the goroutine of activation t
ThreadSteps(t) ==
    \/ FetchGetLink(t)
    \/ FetchHttp(t)
    \/ FetchCompare(t)
    \/ FetchStore(t)
    \/ GetOneLoad(t)
    \/ GetOneAfterFetch(t)

\* the steps of the pump after it took a message
PumpSteps ==
    \/ BroadcastReturn
    \/ PumpLog

NextRetry ==
    \/ UpstreamRecovers
    \/ Tick
    \/ DiscoverySteps
    \/ AuditSteps
    \/ \E t \in Threads : ThreadSteps(t)
    \/ PumpSteps

\* every goroutine that can run does run, and both tickers keep firing
FairRetry ==
    /\ WF_vars(DiscoverySteps)
    /\ WF_vars(AuditSteps)
    /\ \A t \in Threads : WF_vars(ThreadSteps(t))
    /\ WF_vars(PumpSteps)

SpecRetry == InitRetry /\ [][NextRetry]_vars /\ FairRetry

\* C17: a game whose hydration failed is retried on a later tick: once the
\* upstream has recovered, a stored unready entry of a game that stays in
\* the schedule eventually becomes ready
C17_FailedHydrationRetried ==
    \A k \in {1} :
        (k \in Stored /\ ~cache[k].ready /\ ~env.fails) ~> (k \in Stored /\ cache[k].ready)

\* C18: a Discovery tick emits an add event only if a hydration of a newly
\* discovered game succeeded in it, and the event's data holds the hydrated
\* games alone, with no null element for a failed hydration
C18_AddCarriesHydratedGames ==
    pMsg.event = "add" =>
        /\ Len(pMsg.data) > 0
        /\ \A i \in 1..Len(pMsg.data) : pMsg.data[i] # Nil /\ pMsg.data[i].ready

\* C19: in every Discovery tick every id for which Discover returned true
\* has GetOne invoked on it before the tick ends, also when a later Discover
\* of the same schedule loop fails with CacheFull: a tick never ends with an
\* added id whose GetOne has not run and returned
C19_AddedIdsHydrated ==
    [][(dpc # "idle" /\ dpc' = "idle")
         => \A i \in 1..Len(dAdded) : th[<<"d", dAdded[i]>>].pc = "gDone"]_vars

(***************************************************************************)
(* The service on the day after: the one game of the schedule is over     *)
(* since more than 15 hours, and the clock advances by more than the      *)
(* refresh age of a final game.                                           *)
(***************************************************************************)
EnvPrune ==
    [scheds |-> { ScheduleOf({1}, 1) },
     states |-> {FinalOld},
     fails  |-> TRUE,
     forever |-> FALSE, step |-> PruneStep,
     discTicks |-> PruneDiscTicks, auditTicks |-> PruneAuditTicks, advances |-> PruneAdvance]

InitPrune == InitWith(EnvPrune, 0) /\ NoSubscribers /\ Serving

SpecPrune == InitPrune /\ [][Next]_vars

\* the entry of k is ready, Final and started over 15 hours ago
FinalLongAgo(k) ==
    /\ k \in Stored
    /\ cache[k].ready
    /\ cache[k].state.general = "Final"
    /\ now - cache[k].state.start > FinalPrune

\* this step is the Range callback of Audit on key k
Visits(k) == apc = "range" /\ k \notin aVisited /\ aVisited' = aVisited \cup {k}

\* Delete removes the key, and Audit then lists it in removed
DeleteRemovesAndLists ==
    /\ (apc = "delDel" /\ apc' = "decR") => aKey \notin DOMAIN cache'
    /\ (apc \in {"delLoad", "decW"} /\ apc' = "range") => removed' = Append(removed, aKey)

\* GetOne of an id that is not stored returns (zero, false)
GetOneOfAbsentId ==
    \A t \in GetOneThreads :
        (th[t].pc \in {"gLoad", "fRet"} /\ th'[t].pc = "gDone" /\ t[2] \notin Stored)
            => th'[t].res = Nil

EnvPostponed ==
    [scheds |-> { ScheduleOf({1}, 1) },
     states |-> {PreviewPostponed, LiveNow, FinalOld},
     fails  |-> TRUE,
     forever |-> FALSE, step |-> ClockStep,
     discTicks |-> MaxDiscTicks, auditTicks |-> MaxAuditTicks, advances |-> MaxAdvance]

InitPostponed == InitWith(EnvPostponed, 0) /\ NoSubscribers /\ Serving

SpecPostponed == InitPostponed /\ [][Next]_vars

\* the entry of k is ready, Preview, and starts more than 24 hours from now
PostponedPreview(k) ==
    /\ k \in Stored
    /\ cache[k].ready
    /\ cache[k].state.general = "Preview"
    /\ cache[k].state.start - now > PreviewPrune

\* C21: an Audit sweep that visits a ready Preview entry which is not due
\* for refresh and whose start_time is more than 24 hours after now deletes
\* the entry and lists its id in removed
C21_PostponedPreviewPruned ==
    [][\A k \in GameIds :
          (Visits(k) /\ PostponedPreview(k) /\ ~DueForRefresh(cache[k], now))
              => apc' = "delLoad" /\ aKey' = k]_vars

\* C22: the link of a cache entry is write-once: while an id stays in the
\* cache every write to its entry, by Fetch from GetOne or from Audit,
\* stores the link that Discover stored
C22_LinkWriteOnce ==
    [][\A k \in Stored \cap DOMAIN cache' : cache'[k].link = cache[k].link]_vars

\* the refresh of Audit has just rewritten the record of game 1, which was
\* discovered under the second link variant
C22_Witness ==
    /\ th[<<"s", 1>>].pc = "fRet"
    /\ th[<<"s", 1>>].ret = "changed"
    /\ th[<<"s", 1>>].hadOld
    /\ 1 \in Stored
    /\ cache[1].ready
    /\ cache[1].link = <<1, 2>>

\* the states a successful projection of the upstream's answers can give
Projections == env.states

\* C23: in every reachable cache state an unready entry has a non-empty
\* link and an all-zero state, and a ready entry holds a state produced by
\* a successful upstream projection
C23_EntryShape ==
    \A k \in Stored :
        IF cache[k].ready
          THEN cache[k].state \in Projections /\ cache[k].link # NoLink
          ELSE cache[k].link # NoLink /\ cache[k].state = ZeroState

\* the cache holds an unready placeholder next to a hydrated game
C23_Witness ==
    /\ \E k \in Stored : ~cache[k].ready
    /\ \E k \in Stored : cache[k].ready /\ cache[k].state = FinalOld

\* this step ends a Discovery tick whose listing succeeded, in which no
\* Discover reported a full cache and every hydration succeeded
TickEndsWell ==
    /\ dpc' = "idle"
    /\ \/ dpc = "wait" /\ \A i \in 1..Len(dAdded) : th[<<"d", dAdded[i]>>].res # Nil
       \/ dpc = "loop" /\ dc[Worker].ret # "full"

\* C24: after a Discovery tick in which the listing succeeds, the cache is
\* not full and every hydration succeeds, every game id of the schedule is
\* in the cache as a ready entry, and the add event of the tick carries
\* exactly the ids that were absent before the tick
C24_TickHydratesSchedule ==
    [][TickEndsWell =>
         /\ \A i \in 1..Len(dSched) :
               dSched[i][1] \in DOMAIN cache' /\ cache'[dSched[i][1]].ready
         /\ dpc = "wait" =>
               /\ pMsg'.event = "add"
               /\ Len(pMsg'.data) = Len(dAdded)
               /\ \A i \in 1..Len(dAdded) : pMsg'.data[i].id = dAdded[i]]_vars

\* the Fetch of Audit's refresh of k
Refresh(k) == <<"s", k>>

\* a refresh whose projection differs from the stored state stores it
RefreshStoresNewState ==
    \A k \in GameIds :
        /\ (/\ th[Refresh(k)].pc = "fCompare" /\ th'[Refresh(k)].pc # "fCompare"
            /\ k \in Stored /\ cache[k].state # th[Refresh(k)].new.state)
              => th'[Refresh(k)].pc = "fStore"
        /\ (th[Refresh(k)].pc = "fStore" /\ th'[Refresh(k)].pc # "fStore")
              => /\ cache'[k] = th[Refresh(k)].new
                 /\ th'[Refresh(k)].ret = "changed"

\* Audit lists the id of a changed refresh in updated
ChangedIsListed ==
    (apc = "fetch" /\ apc' # "fetch" /\ th[Refresh(aKey)].ret = "changed")
        => updated' = Append(updated, aKey)

\* the update event carries, for each id of updated, the record stored now
UpdateEventCarriesStored ==
    (apc = "wait" /\ apc' # "wait")
        => /\ pMsg'.event = "update"
           /\ Len(pMsg'.data) = Len(updated)
           /\ \A i \in 1..Len(updated) :
                 /\ updated[i] \in Stored
                 /\ cache[updated[i]].ready
                 /\ pMsg'.data[i] = cache[updated[i]]

\* from the refresh to the event, the ids of updated keep the record the
\* refresh stored
UpdatedStayStored ==
    (apc \in {"range", "fetch", "wait"} /\ apc' \in {"range", "fetch", "wait"})
        => \A i \in 1..Len(updated) :
              /\ updated[i] \in Stored /\ updated[i] \in DOMAIN cache'
              /\ cache'[updated[i]] = cache[updated[i]]

\* C25: when an Audit sweep refreshes a stale entry and the projection
\* differs from the stored state, the id is listed in updated, the stored
\* record is replaced by the new projection, and the update event of that
\* tick carries the new state for the id
C25_RefreshReachesEvent ==
    [][/\ RefreshStoresNewState
       /\ ChangedIsListed
       /\ UpdatedStayStored
       /\ UpdateEventCarriesStored]_vars

\* game 1 was live, its refresh found it over, and the update event of the
\* tick carries the final state
C25_Witness ==
    /\ pMsg.event = "update"
    /\ Len(pMsg.data) = 1
    /\ pMsg.data[1] # Nil
    /\ pMsg.data[1].id = 1
    /\ pMsg.data[1].state = FinalOld
    /\ updated = <<1>>

(***************************************************************************)
(* The service from a running state to its exit: worker ticks recur until *)
(* the context is cancelled, and any upstream request may fail.           *)
(***************************************************************************)
InitRun == InitWith(EnvRetry, 0) /\ NoSubscribers /\ Serving

\* the steps of shutdown that follow the signal
ShutdownSteps ==
    \/ FindNewGamesReturn
    \/ AuditGamesReturn
    \/ ObserverWakes
    \/ ObserverWaited
    \/ ObserverCloses
    \/ PumpReturns
    \/ MainReturns

NextRun ==
    \/ Cancel
    \/ UpstreamRecovers
    \/ Tick
    \/ DiscoverySteps
    \/ AuditSteps
    \/ \E t \in Threads : ThreadSteps(t)
    \/ PumpSteps
    \/ ShutdownSteps

\* every goroutine that can run does run, and a worker blocked in a send on
\* the event channel is served in its turn (the runtime queues the senders
\* of a channel first in, first out); the signal may never come
FairRun ==
    /\ FairRetry
    /\ WF_vars(ShutdownSteps)
    /\ SF_vars(UpdateGamesSend)
    /\ SF_vars(AuditSendUpdate)
    /\ SF_vars(AuditSendFail)

SpecRun == InitRun /\ [][NextRun]_vars /\ FairRun

Stale(k) ==
    LET age == now - cache[k].ts
        general == cache[k].state.general
    IN \/ general = "Live" /\ age > 5
       \/ general = "Preview" /\ age > 15 * 60
       \/ general = "Final" /\ age > 30 * 60

\* the entry of k matches neither the refresh rule nor a prune rule
NoRule(k) == ~Stale(k) /\ ~DueForPrune(cache[k], now)

\* this step sends the request of the Fetch t to the upstream
UpstreamAskedFor(t) == th[t].pc = "fHttp" /\ th'[t].pc # "fHttp"

FetchFails(t) == th[t].pc \in {"fLink", "fHttp"} /\ th'[t].pc = "fRet"

Linescores ==
    [batter : PlayerIds, first : PlayerIds, second : PlayerIds, third : PlayerIds,
     outs : 0..MaxOuts]

\* a live feed with status st, roster r, the pitcher fields p and linescore l
LiveGame(st, r, p, l) ==
    [status |-> st, players |-> r,
     probAway |-> p.probAway, probHome |-> p.probHome,
     defPitcher |-> p.defPitcher, offPitcher |-> p.offPitcher, awayDefends |-> p.awayDefends,
     winner |-> p.winner, loser |-> p.loser, awayRuns |-> p.awayRuns, homeRuns |-> p.homeRuns,
     batter |-> l.batter, first |-> l.first, second |-> l.second, third |-> l.third,
     outs |-> l.outs]

\* the pitcher fields the upstream fills in for a game of each status
PitcherFields(st) ==
    LET zero == [probAway |-> 0, probHome |-> 0, defPitcher |-> 0, offPitcher |-> 0,
                 awayDefends |-> FALSE, winner |-> 0, loser |-> 0,
                 awayRuns |-> 0, homeRuns |-> 0]
    IN CASE st = "Preview" ->
              { [zero EXCEPT !.probAway = a, !.probHome = h] : a \in PlayerIds, h \in PlayerIds }
         [] st = "Live" ->
              { [zero EXCEPT !.defPitcher = d, !.offPitcher = o, !.awayDefends = f] :
                    d \in PlayerIds, o \in PlayerIds, f \in BOOLEAN }
         [] st = "Final" ->
              { [zero EXCEPT !.winner = w, !.loser = x, !.awayRuns = r[1], !.homeRuns = r[2]] :
                    w \in PlayerIds, x \in PlayerIds, r \in {<<1, 0>>, <<0, 1>>} }
         [] OTHER -> {zero}

\* the games the upstream knows, before any linescore is read
LiveGames ==
    UNION { { LiveGame(st, r, p, [batter |-> 0, first |-> 0, second |-> 0, third |-> 0,
                                  outs |-> 0]) :
                  r \in SUBSET (1..MaxPlayer), p \in PitcherFields(st) } :
            st \in {"Preview", "Live", "Final", "Other"} }

InitProject ==
    /\ InitProgram(EnvIdle, 0) /\ NoSubscribers /\ Serving
    /\ lg \in LiveGames
    /\ projected = NotProjected
    /\ NoReader

\* FetchGame: the feed is decoded with the linescore of the moment, and the
\* State is built from it, up to the return or to the panic
FetchGameProjects ==
    /\ panic = "none"
    /\ projected = NotProjected
    /\ \E l \in Linescores :
          /\ lg' = [lg EXCEPT !.batter = l.batter, !.first = l.first, !.second = l.second,
                              !.third = l.third, !.outs = l.outs]
          /\ projected' = ProjectState(lg').state
          /\ panic' = ProjectState(lg').panic
    /\ UNCHANGED <<progVars, bcastVars, nCalls, shutVars, readVars>>

NextProject == FetchGameProjects

SpecProject == InitProject /\ [][NextProject]_vars

\* C27: every player reference of a live feed is resolved through the
\* players table, and a reference whose id is not a key of the table gives
\* the sentinel player in a Game that FetchGame returns: the projection
\* never fails
C27_MissingPlayerIsSentinel ==
    /\ panic = "none"
    /\ projected # NotProjected =>
          LET resolved(id) == IF id \in Table(lg) THEN id ELSE 0
          IN /\ projected.pitcherAway = resolved(PitcherIds(lg)[1])
             /\ projected.pitcherHome = resolved(PitcherIds(lg)[2])
             /\ projected.first = resolved(lg.first)
             /\ projected.second = resolved(lg.second)
             /\ projected.third = resolved(lg.third)
             /\ projected.batter \in {0, resolved(lg.batter)}

\* the batter rule of the claim, over the upstream's linescore
MustClear ==
    \/ lg.status # "Live"
    \/ lg.outs = 3
    \/ lg.batter \in {lg.first, lg.second, lg.third}

\* C28: in every projected game the batter is the sentinel player when the
\* status is not Live, or outs is 3, or the batter is the runner on first,
\* second or third; a Final game has the sentinel batter and outs 0; in all
\* other cases the batter and the outs are the upstream's
C28_BatterAndOuts ==
    projected # NotProjected =>
        /\ MustClear => projected.batter = 0
        /\ lg.status = "Final" => projected.batter = 0 /\ projected.outs = 0
        /\ ~MustClear => projected.batter = lg.batter /\ projected.outs = lg.outs
        /\ lg.status # "Final" => projected.outs = lg.outs

\* a Live game with three outs and a batter who is on no base is projected
\* with the sentinel batter and the three outs
C28_Witness ==
    /\ projected # NotProjected
    /\ lg.status = "Live" /\ lg.outs = 3
    /\ lg.batter # 0 /\ lg.batter \notin {lg.first, lg.second, lg.third}
    /\ projected.batter = 0 /\ projected.outs = 3

(***************************************************************************)
(* The Audit worker ticking for ever on an old final game: the one game   *)
(* of the schedule is over since more than 15 hours, the clock advances   *)
(* by more than the refresh age of a final game, and any request to the   *)
(* upstream may fail, this time and every time.                           *)
(***************************************************************************)
EnvStale ==
    [scheds |-> { ScheduleOf({1}, 1) },
     states |-> {FinalOld},
     fails  |-> TRUE,
     forever |-> FALSE, step |-> PruneStep,
     discTicks |-> StaleDiscTicks, auditTicks |-> 1, advances |-> StaleAdvance]

InitStale == InitWith(EnvStale, 0) /\ NoSubscribers /\ Serving

\* the ticker of AuditGames fires every 30 seconds, without end: the tick
\* that was spent is there again
AuditTickerRearms ==
    /\ panic = "none"
    /\ UNCHANGED feedVars
    /\ UNCHANGED readVars
    /\ UNCHANGED shutVars
    /\ apc = "idle"
    /\ nAudit = env.auditTicks
    /\ nAudit' = 0
    /\ UNCHANGED <<env, cacheVars, clockVars, dc, discVars, apc, aSnap, aVisited, aKey,
                   updated, removed, failed, aTmp, th, bcastVars, nCalls, panic>>

\* the steps of the Audit worker that prune an entry and report it
PruneSteps ==
    \/ DeleteLoad
    \/ DeleteDelete
    \/ DeleteDecRead
    \/ DeleteDecWrite
    \/ AuditSendRemove

NextStale ==
    \/ Tick
    \/ AuditTickerRearms
    \/ DiscoverySteps
    \/ AuditSteps
    \/ PruneSteps
    \/ \E t \in Threads : ThreadSteps(t)
    \/ PumpSteps

\* every goroutine that can run does run, the Audit ticker keeps firing, and
\* a send on the event channel is served
FairStale ==
    /\ FairRetry
    /\ WF_vars(PruneSteps)
    /\ WF_vars(AuditTickerRearms)
    /\ SF_vars(UpdateGamesSend)
    /\ SF_vars(AuditSendUpdate)
    /\ SF_vars(AuditSendRemove)
    /\ SF_vars(AuditSendFail)

SpecStale == InitStale /\ [][NextStale]_vars /\ FairStale

\* the remove event the pump holds names k
RemoveReported(k) == pMsg.event = "remove" /\ k \in Elems(pMsg.data)

\* C31: under repeated Audit ticks every ready Final entry that started more
\* than 15 hours ago is eventually deleted and reported in a remove event,
\* also when its timestamp is older than 30 minutes and also while the
\* upstream requests for it keep failing
C31_OldFinalEventuallyPruned ==
    \A k \in {1} : FinalLongAgo(k) ~> (k \notin Stored /\ RemoveReported(k))

(***************************************************************************)
(* Who writes the cache.                                                   *)
(***************************************************************************)
\* this step is the Store of a Fetch of k that goes on to return true
StoreOfFetch(k) ==
    \E t \in Threads :
        /\ t[2] = k
        /\ th[t].pc = "fStore"
        /\ th'[t].pc = "fRet" /\ th'[t].ret = "changed"
        /\ cache'[k] = th[t].new

\* this step is the cache.Delete of the prune branch of the sweep, on k
DeleteOfPrune(k) ==
    /\ apc = "delDel" /\ aKey = k
    /\ k \in aVisited
    /\ DueForPrune(cache[k], now)

\* this step is one of Discover on a present id, of GetOne on a ready
\* entry, of a Fetch that fails, of the broadcaster pump
ReadOnlyStep ==
    \/ dc[Worker].pc = "load" /\ dc'[Worker] # dc[Worker] /\ dc[Worker].id \in Stored
    \/ \E t \in GetOneThreads :
          /\ th[t].pc = "gLoad" /\ th'[t] # th[t]
          /\ t[2] \in Stored /\ cache[t[2]].ready
    \/ \E t \in Threads : th'[t] # th[t] /\ th'[t].pc = "fRet" /\ th'[t].ret = "error"
    \/ ppc' # ppc

NoCacheOperation ==
    /\ dpc = "idle" /\ apc = "idle"
    /\ dc[Worker].pc = "off"
    /\ \A t \in Threads : th[t].pc = "off"

\* C35: whenever no cache operation is in progress, the length counter is
\* the number of entries of the cache map, whatever the interleaving of the
\* Discovery worker's Discover calls with the Audit worker's Delete calls
C35_LengthCountsEntries ==
    NoCacheOperation => length = Cardinality(Stored)

(***************************************************************************)
(* GameCache.GetAll step by step, as run by the handler of a snapshot     *)
(* request (Games.GetInitial, GetInitialGames) while the workers run.     *)
(* The handler runs on a goroutine of net/http, which recovers a panic of *)
(* the handler: the request dies, the process goes on.                    *)
(***************************************************************************)
\* GET /api/games/initial arrives: GetInitial calls GetInitialGames, which calls GetAll
GetInitial ==
    /\ panic = "none"
    /\ UNCHANGED feedVars
    /\ UNCHANGED shutVars
    /\ ga.pc = "off"
    /\ ga' = [ga EXCEPT !.pc = "check"]
    /\ UNCHANGED <<progVars, bcastVars, nCalls, obj, fields, panic>>

\* if gc.length > 0, else return nil, nil
GetAllCheck ==
    /\ panic = "none"
    /\ UNCHANGED feedVars
    /\ UNCHANGED shutVars
    /\ ga.pc = "check"
    /\ ga' = IF length > 0 THEN [ga EXCEPT !.pc = "make"]
                           ELSE [ga EXCEPT !.pc = "done", !.ret = "nil"]
    /\ UNCHANGED <<progVars, bcastVars, nCalls, obj, fields, panic>>

\* games := make([]*Game, gc.length), g := 0, and Range starts
GetAllMake ==
    /\ panic = "none"
    /\ UNCHANGED feedVars
    /\ UNCHANGED shutVars
    /\ ga.pc = "make"
    /\ ga' = [ga EXCEPT !.pc = "range", !.len = length, !.snap = Stored, !.visited = {}, !.g = 0]
    /\ UNCHANGED <<progVars, bcastVars, nCalls, obj, fields, panic>>

\* Range calls the callback on a key not visited before, with the value the
\* map holds for it now; a ready game is written at games[g], which is an
\* index out of range when g has reached the length of the slice
GetAllVisit(k) ==
    /\ panic = "none"
    /\ UNCHANGED feedVars
    /\ UNCHANGED shutVars
    /\ ga.pc = "range"
    /\ k \in Stored \ ga.visited
    /\ ga' = IF ~cache[k].ready
               THEN [ga EXCEPT !.visited = @ \cup {k}]
               ELSE IF ga.g < ga.len
                      THEN [ga EXCEPT !.visited = @ \cup {k}, !.g = @ + 1]
                      ELSE [ga EXCEPT !.visited = @ \cup {k}, !.g = @ + 1,
                                      !.pc = "done", !.ret = "index out of range"]
    /\ UNCHANGED <<progVars, bcastVars, nCalls, obj, fields, panic>>

\* Range returns once every key it started with was visited or is gone:
\* return games[0:g], nil
GetAllReturn ==
    /\ panic = "none"
    /\ UNCHANGED feedVars
    /\ UNCHANGED shutVars
    /\ ga.pc = "range"
    /\ (ga.snap \ ga.visited) \cap Stored = {}
    /\ ga' = [ga EXCEPT !.pc = "done", !.ret = "games"]
    /\ UNCHANGED <<progVars, bcastVars, nCalls, obj, fields, panic>>

\* the steps of the snapshot request
GetAllSteps ==
    \/ GetInitial
    \/ GetAllCheck
    \/ GetAllMake
    \/ \E k \in GameIds : GetAllVisit(k)
    \/ GetAllReturn

(***************************************************************************)
(* A snapshot request during the first Discovery tick of a day with       *)
(* SnapGames games, all of them live.                                     *)
(***************************************************************************)
EnvSnap ==
    [scheds |-> { ScheduleOf(1..SnapGames, 1) },
     states |-> {LiveNow},
     fails  |-> FALSE,
     forever |-> FALSE, step |-> ClockStep,
     discTicks |-> 1, auditTicks |-> 0, advances |-> 0]

InitSnap == InitWith(EnvSnap, 0) /\ NoSubscribers /\ Serving

NextSnap ==
    \/ DiscoverySteps
    \/ \E t \in Threads : ThreadSteps(t)
    \/ PumpSteps
    \/ GetAllSteps

SpecSnap == InitSnap /\ [][NextSnap]_vars

\* C36: GetAll never writes past the slice it made from the length counter:
\* whatever the workers do meanwhile, the ready entries its Range visits are
\* at most as many as the length it read
C36_GetAllWithinBuffer ==
    /\ ga.g <= ga.len
    /\ ga.ret # "index out of range"

(***************************************************************************)
(* The service running for ever with one subscriber whose client stopped  *)
(* reading: connection 1 stays registered, its handler never takes a      *)
(* message off its queue, and the queue holds all but one of the messages *)
(* it can hold when the service is first looked at.                       *)
(***************************************************************************)
InitStalled == InitWith(EnvRetry, 0) /\ StalledSubscriber /\ Serving

\* the steps of Broadcast that deal with one subscriber
DeliverySteps ==
    \/ \E k \in Conns : BroadcastVisit(k)
    \/ BroadcastSend

NextStalled ==
    \/ UpstreamRecovers
    \/ Tick
    \/ DiscoverySteps
    \/ AuditSteps
    \/ \E t \in Threads : ThreadSteps(t)
    \/ PumpSteps
    \/ DeliverySteps

\* every goroutine that can run does run, both tickers keep firing, and a
\* send on the event channel is served once the pump receives again
FairStalled ==
    /\ FairRetry
    /\ WF_vars(DeliverySteps)
    /\ SF_vars(UpdateGamesSend)
    /\ SF_vars(AuditSendUpdate)
    /\ SF_vars(AuditSendFail)

SpecStalled == InitStalled /\ [][NextStalled]_vars /\ FairStalled

\* C33: a subscriber that never reads its queue blocks no worker: every
\* send of a worker on the event channel completes, Broadcast returns to
\* the pump's receive, and both workers keep ticking
C33_WorkersNeverBlocked ==
    /\ (dpc = "wait") ~> (dpc = "idle")
    /\ (apc = "wait") ~> (apc # "wait")
    /\ (apc = "sendF") ~> (apc = "idle")
    /\ (ppc # "recv") ~> (ppc = "recv")
    /\ []<><<FindNewGames>>_vars
    /\ []<><<AuditGames>>_vars

\* the queue of the stalled subscriber is full, a Broadcast has dropped its
\* message for it (sent to 0 of 1), and the pump is back at its receive
C33_Witness ==
    /\ Len(chans[1].buf) = QueueCap
    /\ chans[1].got = <<>>
    /\ pLog = <<0, 1>>
    /\ ppc = "recv"

(***************************************************************************)
(* Broadcaster.Count against the subscriber table.                         *)
(***************************************************************************)
\* no handler is inside Register or inside its deferred Deregister
NoRegistration == \A n \in Conns : hpc[n] \in {"off", "loop", "done"}

\* C40: whenever no Register or Deregister call is in progress, Count is the
\* number of queues in the subscriber table; Count is never negative; and
\* once an SSE handler has returned, on a disconnect or because streaming is
\* unsupported, its queue is not in the table any more
C40_CountIsTableSize ==
    /\ NoRegistration => Count = Cardinality(DOMAIN clients)
    /\ Count >= 0
    /\ \A n \in Conns : hpc[n] = "done" => n \notin DOMAIN clients

\* the handler of connection 1 has returned while connection 2 stays
\* subscribed: the table holds the queue of connection 2 and Count is 1
C40_Witness ==
    /\ hpc[1] = "done"
    /\ hpc[2] = "loop"
    /\ DOMAIN clients = {2}
    /\ Count = 1

(***************************************************************************)
(* The service against an upstream whose live feed may answer with the    *)
(* gamePk of another game than the one the link names.                    *)
(***************************************************************************)
EnvForeign ==
    [scheds |-> { ScheduleOf({1}, 1) },
     states |-> {LiveNow, LiveElsewhere},
     fails  |-> TRUE,
     forever |-> FALSE, step |-> ClockStep,
     discTicks |-> MaxDiscTicks, auditTicks |-> MaxAuditTicks, advances |-> MaxAdvance]

InitForeign == InitWith(EnvForeign, 0) /\ NoSubscribers /\ Serving

NextForeign ==
    \/ Tick
    \/ DiscoverySteps
    \/ AuditSteps
    \/ \E t \in Threads : ThreadSteps(t)
    \/ PumpSteps

SpecForeign == InitForeign /\ [][NextForeign]_vars

\* C37: the ID of every stored record is the key it is stored under,
\* whatever Discover and Fetch calls were made and whatever the upstream
\* answered, a gamePk that is not the id asked for included
C37_IdIsKey == \A k \in Stored : cache[k].id = k

(***************************************************************************)
(* Readiness of an entry over its life in the cache.                      *)
(***************************************************************************)
\* this step is the cache.Delete of an Audit sweep, on k
DeleteOfSweep(k) == apc = "delDel" /\ aKey = k /\ apc' # apc

\* this step is a step of a Discover call or of a GetOne or Fetch call on k
CallOn(k) ==
    \/ dc[Worker].id = k /\ dc'[Worker] # dc[Worker]
    \/ \E t \in Threads : t[2] = k /\ th'[t] # th[t]

\* C38: a ready entry stays ready for as long as it is stored, and it leaves
\* the cache only by the Delete of an Audit sweep; no step of a Discover, a
\* Fetch or a GetOne on its id, in any interleaving of the two workers,
\* puts an unready placeholder in its place
C38_ReadinessMonotone ==
    [][ \A k \in Stored : cache[k].ready =>
            /\ k \in DOMAIN cache' => cache'[k].ready
            /\ k \notin DOMAIN cache' => DeleteOfSweep(k)
            /\ CallOn(k) => (k \in DOMAIN cache' /\ cache'[k].ready) ]_vars

\* the second Discovery tick has listed a game again that a sweep has
\* refreshed meanwhile: Discover has returned false, the GetOne of the tick
\* is under way, and the entry is the ready record the refresh stored
C38_Witness ==
    \E k \in GameIds :
        /\ k \in Elems(updated)
        /\ k \in Stored
        /\ cache[k].ready
        /\ nDisc = MaxDiscTicks
        /\ th[<<"d", k>>].pc # "off"

(***************************************************************************)
(* The sweep and the entries that are discovered and not yet hydrated.    *)
(***************************************************************************)
\* the three lists of the sweep
Listed == Elems(updated) \cup Elems(removed) \cup Elems(failed)

\* the step neither starts a refresh or a Delete nor writes the cache or a list
SweepPassesBy ==
    /\ apc' = "range"
    /\ aKey' = aKey
    /\ th' = th
    /\ cacheVars' = cacheVars
    /\ <<updated, removed, failed>>' = <<updated, removed, failed>>

\* C39 as stated: while a sweep is under way and once it has returned, the
\* id of an unready entry is in none of updated, removed, failed
C39_UnreadyNeverListed ==
    \A k \in Stored : ~cache[k].ready => k \notin Listed

\* C39, amended: the visit of a sweep to an unready entry, however old,
\* starts no refresh and no Delete and leaves the cache and the three lists
\* as they were; the entry a sweep goes on to refresh or delete is ready
\* when it is visited, and a list grows only by the id of that entry
C39_UnreadyPassedBy ==
    [][ /\ \A k \in Stored : (Visits(k) /\ ~cache[k].ready) => SweepPassesBy
        /\ (aKey' # aKey /\ aKey' # 0) => (Visits(aKey') /\ cache[aKey'].ready)
        /\ Listed' \subseteq Listed \cup {aKey} ]_vars

\* a sweep has passed by a placeholder older than every refresh age, the
\* oldest, that of a final game, included, and has listed nothing
C39_Witness ==
    \E k \in aVisited :
        /\ k \in Stored
        /\ ~cache[k].ready
        /\ now - cache[k].ts > FinalTTL
        /\ apc = "range"
        /\ Listed = {}

(***************************************************************************)
(* generateFieldsString and extractFieldsFromStruct over reflect.Type.    *)
(* A type is its Kind, with the element type of a pointer, map, slice or  *)
(* array and the fields of a struct; a field is whether it is exported,   *)
(* its json tag as the parts strings.Split(tag, ",") gives, and its type. *)
(***************************************************************************)
Wrappers == {"ptr", "map", "slice", "array"}

GoString == [kind |-> "string"]
GoInt == [kind |-> "int"]
GoUint32 == [kind |-> "uint32"]
GoBool == [kind |-> "bool"]
GoAny == [kind |-> "interface"]
Struct(fs) == [kind |-> "struct", fields |-> fs]
Ptr(t) == [kind |-> "ptr", elem |-> t]
Map(t) == [kind |-> "map", elem |-> t]
Slice(t) == [kind |-> "slice", elem |-> t]
Array(t) == [kind |-> "array", elem |-> t]

\* an exported field with the json tag `json:"name"`
Field(name, t) == [exported |-> TRUE, tag |-> <<name>>, type |-> t]
\* a field of a lower-case name, which has no tag in these schemas
Private(t) == [exported |-> FALSE, tag |-> <<"">>, type |-> t]

\* time.Time: a struct of three unexported fields (wall, ext, loc)
Time == Struct(<<Private(GoInt), Private(GoInt), Private(Ptr(Struct(<<>>)))>>)

\* prefix + "," + jsonName, or jsonName under an empty prefix
FullPath(prefix, jsonName) == IF prefix # "" THEN prefix \o "," \o jsonName ELSE jsonName

RECURSIVE extractFieldsFromStruct(_, _)
RECURSIVE ExtractFrom(_, _, _)

\* the body of the loop for field i of a struct and the fields after it
ExtractFrom(fs, i, prefix) ==
    IF i > Len(fs) THEN <<>>
    ELSE LET field == fs[i]
             fullPath == FullPath(prefix, field.tag[1])
             own == IF ~field.exported THEN <<>>
                    ELSE IF field.tag = <<"">> \/ field.tag = <<"-">> THEN <<>>
                    ELSE IF field.type = Time THEN <<fullPath>>
                    ELSE IF field.type.kind \in {"struct"} \cup Wrappers
                           THEN extractFieldsFromStruct(field.type, fullPath)
                           ELSE <<fullPath>>
         IN  own \o ExtractFrom(fs, i + 1, prefix)

\* one t.Elem() for a pointer, map, slice or array; nothing for what is
\* then not a struct; else the loop over the fields
extractFieldsFromStruct(t, prefix) ==
    LET u == IF t.kind \in Wrappers THEN t.elem ELSE t
    IN  IF u.kind # "struct" THEN <<>> ELSE ExtractFrom(u.fields, 1, prefix)

\* strings.Join(elems, sep)
RECURSIVE Join(_, _)
Join(elems, sep) ==
    IF elems = <<>> THEN ""
    ELSE IF Len(elems) = 1 THEN elems[1]
    ELSE elems[1] \o sep \o Join(Tail(elems), sep)

generateFieldsString(o) == Join(extractFieldsFromStruct(o, ""), ",")

(***************************************************************************)
(* api_data.Schedule, the schema of the schedule endpoint.                *)
(***************************************************************************)
\* Game with the structs of its fields: Status, LeagueRecord, TeamName, Team,
\* Teams, Venue, Content
Game ==
    LET Status == Struct(<<Field("abstractGameState", GoString), Field("codedGameState", GoString),
                           Field("detailedState", GoString), Field("statusCode", GoString),
                           Field("startTimeTBD", GoBool), Field("abstractGameCode", GoString)>>)
        LeagueRecord == Struct(<<Field("wins", GoInt), Field("losses", GoInt), Field("pct", GoString)>>)
        TeamName == Struct(<<Field("id", GoInt), Field("name", GoString), Field("link", GoString)>>)
        Team == Struct(<<Field("leagueRecord", LeagueRecord), Field("score", GoInt),
                         Field("team", TeamName), Field("isWinner", GoBool),
                         Field("splitSquad", GoBool), Field("seriesNumber", GoInt)>>)
        Teams == Struct(<<Field("away", Team), Field("home", Team)>>)
        Venue == Struct(<<Field("id", GoInt), Field("name", GoString), Field("link", GoString)>>)
        Content == Struct(<<Field("link", GoString)>>)
    IN  Struct(<<Field("gamePk", GoUint32), Field("gameGuid", GoString), Field("link", GoString),
                    Field("gameType", GoString), Field("season", GoString),
                    Field("gameDate", Time), Field("officialDate", GoString),
                    Field("status", Status), Field("teams", Teams), Field("venue", Venue),
                    Field("content", Content), Field("isTie", GoBool),
                    Field("gameNumber", GoInt), Field("publicFacing", GoBool),
                    Field("doubleHeader", GoString), Field("gamedayType", GoString),
                    Field("tiebreaker", GoString), Field("calendarEventID", GoString),
                    Field("seasonDisplay", GoString), Field("dayNight", GoString),
                    Field("scheduledInnings", GoInt), Field("reverseHomeAwayStatus", GoBool),
                    Field("inningBreakLength", GoInt), Field("gamesInSeries", GoInt),
                    Field("seriesGameNumber", GoInt), Field("seriesDescription", GoString),
                    Field("recordSource", GoString), Field("ifNecessary", GoString),
                    Field("ifNecessaryDescription", GoString)>>)
Date == Struct(<<Field("date", GoString), Field("totalItems", GoInt), Field("totalEvents", GoInt),
                 Field("totalGames", GoInt), Field("totalGamesInProgress", GoInt),
                 Field("games", Slice(Game)), Field("events", Slice(GoAny))>>)
Schedule == Struct(<<Field("copyright", GoString), Field("totalItems", GoInt),
                     Field("totalEvents", GoInt), Field("totalGames", GoInt),
                     Field("totalGamesInProgress", GoInt), Field("dates", Slice(Date))>>)

(***************************************************************************)
(* Schema types of two fields: every kind of field type the generator     *)
(* tells apart, under every kind of tag.                                  *)
(***************************************************************************)
\* a struct with one leaf, as League is in the live-feed schema
League == Struct(<<Field("name", GoString)>>)

FieldTypes ==
    {GoString, Time, GoAny, League, Ptr(League), Map(League), Slice(League), Array(League),
     Slice(GoString), Ptr(Time), Slice(Slice(League))}

\* `json:"name"`, `json:"name,omitempty"`, no tag, `json:"-"`, and a tagged
\* field of a lower-case name
FieldsNamed(name) ==
    { [exported |-> e, tag |-> g, type |-> t] :
        e \in {TRUE}, g \in {<<name>>, <<name, "omitempty">>, <<"">>, <<"-">>}, t \in FieldTypes }
    \cup { [exported |-> FALSE, tag |-> <<name>>, type |-> t] : t \in FieldTypes }

TwoFieldStructs == { Struct(<<f1, f2>>) : f1 \in FieldsNamed("a"), f2 \in FieldsNamed("b") }

\* the values generateFieldsString is given: the schedule schema, and the
\* two-field schemas as values and behind a pointer
Schemas == {Schedule} \cup TwoFieldStructs \cup { Ptr(s) : s \in TwoFieldStructs }

InitFields ==
    /\ InitProgram(EnvIdle, 0) /\ NoSubscribers /\ Serving
    /\ NoLiveGame
    /\ ga = GetAllOff
    /\ obj \in Schemas
    /\ fields = NotGenerated

\* fields := generateFieldsString(obj), as ListGamesByDate calls it
GenerateFields ==
    /\ panic = "none"
    /\ fields = NotGenerated
    /\ fields' = [done |-> TRUE, csv |-> generateFieldsString(obj)]
    /\ UNCHANGED <<progVars, bcastVars, nCalls, shutVars, feedVars, ga, obj, panic>>

NextFields == GenerateFields

SpecFields == InitFields /\ [][NextFields]_vars

(***************************************************************************)
(* The fields string as the leaf paths of the schema.                     *)
(***************************************************************************)
\* the type behind every pointer, map, slice and array
RECURSIVE Descend(_)
Descend(t) == IF t.kind \in Wrappers THEN Descend(t.elem) ELSE t

\* the field takes part: exported, and tagged with a name
Tagged(field) == field.exported /\ field.tag # <<"">> /\ field.tag # <<"-">>

\* one path per leaf below the fields i.. of a struct, in declaration
\* order, depth first; a leaf is a tagged field that, behind its pointers,
\* maps, slices and arrays, is no struct, or is a time
RECURSIVE LeafPathsFrom(_, _, _)
LeafPathsFrom(fs, i, prefix) ==
    IF i > Len(fs) THEN <<>>
    ELSE LET field == fs[i]
             path == FullPath(prefix, field.tag[1])
             inner == Descend(field.type)
             own == IF ~Tagged(field) THEN <<>>
                    ELSE IF inner.kind = "struct" /\ inner # Time
                           THEN LeafPathsFrom(inner.fields, 1, path)
                           ELSE <<path>>
         IN  own \o LeafPathsFrom(fs, i + 1, prefix)

LeafPaths(t) ==
    LET inner == Descend(t)
    IN  IF inner.kind = "struct" THEN LeafPathsFrom(inner.fields, 1, "") ELSE <<>>

\* C34: the fields string of a schema is its leaf paths, in depth-first
\* declaration order, joined by commas, fields behind structs, pointers,
\* maps, slices and arrays included and untagged or unexported fields left
\* out; for the schedule schema it is dates,games,gamePk,dates,games,link
C34_FieldsAreLeafPaths ==
    fields # NotGenerated =>
        /\ fields.csv = Join(LeafPaths(obj), ",")
        /\ obj = Schedule => fields.csv = "dates,games,gamePk,dates,games,link"

====
